---- MODULE Spec2Model ----
(***************************************************************************)
(* A model of PDF-Zipper's target-size search (src/pdf_zipper/core.py,     *)
(* compress.py) and of its PPTX -> PDF conversion fallback chain (Spec),  *)
(* of the two searches with the record of their trials (SpecSearch), of   *)
(* the chain alone under fair scheduling (SpecChain), of                   *)
(* the stand-alone functions of core.py, page by page (SpecTools), and of  *)
(* the worker threads of the GUI session of gui.py (SpecGui).              *)
(*                                                                         *)
(* DPI values are dyadic rationals (30, 300 and midpoints of at most       *)
(* ITERATIONS bisections); they are stored multiplied by Scale, so that    *)
(* every midpoint is an integer and the arithmetic of the code is exact.   *)
(* File sizes and the target size are in one common unit.                  *)
(***************************************************************************)
EXTENDS Integers, Sequences, FiniteSets, TLC

\* ------------------------------------------------------------------ bounds
MaxPages == 2          \* pages of a source document / slides of a deck
SizeSpread == 2        \* artifact sizes range over TargetSize -+ SizeSpread
MaxDeckPages == 52     \* pages of a document given to convert_to_ppt
MaxJobs == 3           \* workers started in one GUI session

\* ------------------------------------------------------- program constants
ITERATIONS_PlusOne == 7 + 1
ITERATIONS == 7
DPI_MIN == 30
DPI_MAX_Narrow == 30 + 100
DPI_MAX == 300
TolNum == 5            \* tolerance = 0.05 = TolNum / TolDen
TolDen == 100

Scale == 2 ^ ITERATIONS

\* The target sizes a caller passes: a positive one whose tolerance band
\* holds more than one size, zero, and a negative one.
TargetSize == 20
Targets == {-1, 0, TargetSize}
MinSize == TargetSize - SizeSpread
MaxSize == TargetSize + SizeSpread
Sizes == MinSize .. MaxSize
\* the sizes of the source files tried: below, at and above TargetSize
SrcSizes == {MinSize, TargetSize, MaxSize}

Abs(x) == IF x < 0 THEN -x ELSE x

\* ---------------------------------------------------------------- artifacts
\* A file content or an in-memory payload.  kind is "none" (Python None, or
\* no file at the path), "empty" (a file of zero bytes), "pdf" or "pptx".
\* dpi is the scaled DPI the artifact was rendered at, pages its page or
\* slide count, size its size, origin the step that produced it.
NoData == [kind |-> "none", dpi |-> 0, pages |-> 0, size |-> 0, origin |-> "none"]
EmptyFile == [kind |-> "empty", dpi |-> 0, pages |-> 0, size |-> 0, origin |-> "tempfile"]
PdfData(d, p, s, o) == [kind |-> "pdf", dpi |-> d, pages |-> p, size |-> s, origin |-> o]
PptxData(d, p, s, o) == [kind |-> "pptx", dpi |-> d, pages |-> p, size |-> s, origin |-> o]

IsNone(a) == a.kind = "none"
\* Python truthiness of Optional[bytes]: None and b"" are falsy
Falsy(a) == a.kind = "none" \/ a.size = 0

\* _generate_pdf_data(doc, dpi): renders every page, skipping the pages whose
\* rendering raises; None when no page rendered, otherwise the PDF built from
\* the rendered pages.  The set of its possible results for a document of n
\* pages: r is the number of pages that rendered, s the size of the result.
GeneratePdfData(n, dpi, o) ==
    {NoData} \cup {PdfData(dpi, r, s, o) : r \in 1 .. n, s \in Sizes}

\* abs(current_size_mb - target_size_mb) / target_size_mb <= tolerance,
\* for target # 0 (the division raises ZeroDivisionError for target = 0)
WithinTolerance(size, t) ==
    IF t > 0 THEN Abs(size - t) * TolDen <= TolNum * t
             ELSE Abs(size - t) * TolDen >= TolNum * t

\* dpi_guess = (dpi_low + dpi_high) / 2, on scaled values
DpiGuessNoHalf(low, high) == low + high
DpiGuess(low, high) == (low + high) \div 2

\* dpi_guess < dpi_low + 1: the early exit of the bisection loop
Converged(low, high) == DpiGuess(low, high) < low + Scale

\* -------------------------------------------------------------------- state
VARIABLES
    op,          \* the top-level operation that was called
    pc,          \* its position; "returned" and "raised" are its two ends
    target,      \* target_size_mb
    src,         \* the file at input_path (NoData: no such file)
    out,         \* the file at output_path (NoData: no such file)
    scratch,     \* the scratch files: name -> content (NoData: no such file)
    npages,      \* len(doc) of the document handle the search renders
    i,           \* the loop index of the search
    dpi_low, dpi_high, best_dpi,
    best_data,   \* best_pdf_data of _find_optimal_dpi
    best_path,   \* best_pptx_path of _find_optimal_dpi_for_pptx
    trials,      \* trials the search has run (one render pass each)
    renders,     \* calls of _generate_pdf_data in this operation
    accepted,    \* the search ended by a within-tolerance acceptance
    platform,    \* platform.system(), read when the chain dispatches
    attempts,    \* the conversion attempts of the chain, in order
    log,         \* the tags of the messages given to logger_func
    tracing,     \* whether this behaviour records the trials of the search
    tried,       \* the trials of the search so far, in order (if tracing)
    cleanup_raised  \* whether an os.unlink of a cleanup step has raised

\* the stand-alone functions of core.py (get_file_type, validate_input_file,
\* compress_pdf, convert_to_ppt, _convert_pptx_fallback_method), called one
\* after the other
VARIABLES
    tool,        \* the function that was called
    tpc,         \* its position; "returned" and "raised" are its two ends
    file_path,   \* its input path: suffix, whether it exists, pages or slides
    dpi_arg,     \* its dpi argument
    ret,         \* the value it returned
    handles,     \* the document handles it opened and closed, as two counts
    page_no,     \* the index of its page loop
    image_list,  \* the pages built so far, each with the source page it shows
    failed,      \* the pages whose render raised
    warned,      \* the pages for which a warning was logged
    quality,     \* the local quality of convert_to_ppt
    output,      \* the file at its output path
    error,       \* the step whose exception left the function
    output_ext,  \* Path(output_path).suffix of a call of autocompress
    route        \* what autocompress did: the routine it called, or its report

\* the GUI session of gui.py
VARIABLES
    selected_path,  \* PDFZipperApp.selected_path
    jobs,           \* the worker threads that are running
    started,        \* the workers started in this session
    gui_log         \* the tag of the last message the handler wrote

mainVars == <<op, pc, target, src, out, scratch, npages, i, dpi_low, dpi_high,
              best_dpi, best_data, best_path, trials, renders, accepted,
              platform, attempts, log, tracing, tried, cleanup_raised>>
toolVars == <<tool, tpc, file_path, dpi_arg, ret, handles, page_no, image_list,
              failed, warned, quality, output, error, output_ext, route>>
guiVars == <<selected_path, jobs, started, gui_log>>
vars == <<mainVars, toolVars, guiVars>>

\* the locals of the search and of the operation that called it
localVars == <<npages, i, dpi_low, dpi_high, best_dpi, best_data, best_path, tried>>
\* what the operation has done so far
countVars == <<trials, renders, accepted>>
chainVars == <<platform, attempts>>

\* ------------------------------------------------------------------- inputs
PdfOps == {"autocompress_pdf", "compress_py_autocompress_pdf"}
Ops == PdfOps \cup {"autocompress_pptx", "autocompress_pdf_to_pptx", "convert_pptx_to_pdf"}

SourceFile(k, p, s) == [kind |-> k, dpi |-> 0, pages |-> p, size |-> s, origin |-> "source"]
PdfSources == {SourceFile("pdf", p, s) : p \in 1 .. MaxPages, s \in SrcSizes}
PptxSources == {SourceFile("pptx", p, s) : p \in 0 .. MaxPages, s \in SrcSizes}
\* a file left at the output path by an earlier run
OldFile == [kind |-> "pdf", dpi |-> 0, pages |-> 1, size |-> MinSize, origin |-> "old"]

SourcesOf(o) ==
    {NoData} \cup
    (CASE o \in PdfOps -> PdfSources \cup PptxSources
       [] o = "autocompress_pdf_to_pptx" -> PdfSources \cup PptxSources
       [] OTHER -> PptxSources)

\* the scratch files an operation can create
ScratchNames ==
    {<<"temp_pdf", 0>>, <<"optimized_pdf", 0>>, <<"lo_expected", 0>>}
    \cup {<<"trial_pdf", k>> : k \in 0 .. ITERATIONS - 1}
    \cup {<<"trial_pptx", k>> : k \in 0 .. ITERATIONS - 1}
NoPath == <<"none", 0>>
TempPdf == <<"temp_pdf", 0>>
OptimizedPdf == <<"optimized_pdf", 0>>
LoExpected == <<"lo_expected", 0>>

\* os.unlink(path): removes the file at the path; it raises when no file is
\* there (FileNotFoundError) or when the path is None (TypeError), and then
\* changes nothing.
UnlinkRaises(fs, p) == p = NoPath \/ IsNone(fs[p])
Unlink(fs, p) == IF UnlinkRaises(fs, p) THEN fs ELSE [fs EXCEPT ![p] = NoData]
\* (a variant in which the deletions are not guarded)
Unguarded(fs, p) == TRUE
\* the test before each os.unlink of a scratch file:
\* `path and os.path.exists(path)`, or os.path.exists(path) for a path that
\* is never None
Guarded(fs, p) == p # NoPath /\ ~IsNone(fs[p])
\* One guarded deletion: the files after it, and whether os.unlink raised.
Cleanup(fs, p) == IF Guarded(fs, p) THEN Unlink(fs, p) ELSE fs
CleanupRaises(fs, p) == Guarded(fs, p) /\ UnlinkRaises(fs, p)

\* the finally clause of autocompress_pptx: delete the temporary PDF
Unwind(o, fs) == IF o = "autocompress_pptx" THEN Cleanup(fs, TempPdf) ELSE fs
UnwindRaises(o, fs) == o = "autocompress_pptx" /\ CleanupRaises(fs, TempPdf)


\* ------------------------------------------------- the parts that are idle
\* no file at a path of the stand-alone functions
NoFile == [kind |-> "none", pages |-> <<>>]
NoRet == [ext |-> <<>>, desc |-> "none", valid |-> FALSE]
NoInput == [ext |-> <<>>, exists |-> FALSE, pages |-> 0]
NoHandles == [opened |-> 0, closed |-> 0]

\* no top-level operation of the search or of the chain was called
MainIdle ==
    /\ op = "none" /\ pc = "idle" /\ target = 0
    /\ src = NoData /\ out = NoData
    /\ scratch = [n \in ScratchNames |-> NoData]
    /\ npages = 0 /\ i = 0
    /\ dpi_low = 0 /\ dpi_high = 0 /\ best_dpi = 0
    /\ best_data = NoData /\ best_path = NoPath
    /\ trials = 0 /\ renders = 0 /\ accepted = FALSE
    /\ platform = "unknown" /\ attempts = <<>> /\ log = {}
    /\ tracing = FALSE /\ tried = <<>>
    /\ cleanup_raised = FALSE

\* no stand-alone function was called
ToolsIdle ==
    /\ tool = "none" /\ tpc = "idle"
    /\ file_path = NoInput /\ dpi_arg = 0 /\ ret = NoRet
    /\ handles = NoHandles /\ page_no = 0 /\ image_list = <<>>
    /\ failed = {} /\ warned = {} /\ quality = 0
    /\ output = NoFile /\ error = "none"
    /\ output_ext = <<>> /\ route = "none"

\* no GUI session
GuiIdle ==
    /\ selected_path = NoInput /\ jobs = {} /\ started = 0 /\ gui_log = "none"

Init ==
    /\ op \in Ops
    /\ pc = "start"
    /\ target \in (IF op = "convert_pptx_to_pdf" THEN {0} ELSE Targets)
    /\ src \in SourcesOf(op)
    /\ out \in {NoData, OldFile}
    /\ scratch = [n \in ScratchNames |-> NoData]
    /\ npages = 0
    /\ i = 0
    /\ dpi_low = 0 /\ dpi_high = 0 /\ best_dpi = 0
    /\ best_data = NoData
    /\ best_path = NoPath
    /\ trials = 0
    /\ renders = 0
    /\ accepted = FALSE
    /\ platform = "unknown"
    /\ attempts = <<>>
    /\ log = {}
    /\ tracing = FALSE
    /\ tried = <<>>
    /\ cleanup_raised = FALSE
    /\ ToolsIdle
    /\ GuiIdle

\* ------------------------------------------------------ _find_optimal_dpi
\* dpi_low, dpi_high = 30, 300; best_dpi, best_pdf_data = dpi_low, None
SearchInit(n) ==
    /\ npages' = n
    /\ i' = 0
    /\ dpi_low' = DPI_MIN * Scale
    /\ dpi_high' = DPI_MAX * Scale
    /\ best_dpi' = DPI_MIN * Scale
    /\ best_data' = NoData
    /\ best_path' = NoPath
    /\ tried' = <<>>

\* the locals end with the operation, on its return and when it raises
DropLocals ==
    /\ npages' = 0
    /\ i' = 0
    /\ dpi_low' = 0 /\ dpi_high' = 0 /\ best_dpi' = 0
    /\ best_data' = NoData
    /\ best_path' = NoPath
    /\ tried' = <<>>

\* What one trial measured, as recorded when tracing: the DPI it rendered at,
\* whether any page rendered, and how the size of the measured artifact
\* compares with the target (within the tolerance; larger than the target).
TrialEntry(g, measured, t) ==
    [dpi |-> g,
     rendered |-> ~Falsy(measured),
     within |-> ~Falsy(measured) /\ t # 0 /\ WithinTolerance(measured.size, t),
     over |-> ~Falsy(measured) /\ measured.size > t]
Record(h, e) == IF tracing THEN Append(h, e) ELSE h

\* (a variant that raises the lower bound without recording the best)
FindOptimalDpiTrialNoBest(low, high, bdpi, bdata, data, t) ==
    LET g == (low + high) \div 2
        same == [dpi_low |-> low, dpi_high |-> high, best_dpi |-> bdpi,
                 best |-> bdata, ctl |-> "continue"]
    IN  IF Falsy(data) THEN [same EXCEPT !.dpi_high = g]
        ELSE IF t = 0 THEN [same EXCEPT !.ctl = "raise"]
        ELSE IF WithinTolerance(data.size, t)
             THEN [same EXCEPT !.best_dpi = g, !.best = data, !.ctl = "break"]
        ELSE IF data.size > t THEN [same EXCEPT !.dpi_high = g]
        ELSE [same EXCEPT !.dpi_low = g]

\* (a variant that records an oversized trial as the best)
FindOptimalDpiTrialKeepsOversized(low, high, bdpi, bdata, data, t) ==
    LET g == (low + high) \div 2
        same == [dpi_low |-> low, dpi_high |-> high, best_dpi |-> bdpi,
                 best |-> bdata, ctl |-> "continue"]
    IN  IF Falsy(data) THEN [same EXCEPT !.dpi_high = g]
        ELSE IF t = 0 THEN [same EXCEPT !.ctl = "raise"]
        ELSE IF WithinTolerance(data.size, t)
             THEN [same EXCEPT !.best_dpi = g, !.best = data, !.ctl = "break"]
        ELSE IF data.size > t THEN [same EXCEPT !.dpi_high = g, !.best = data]
        ELSE [same EXCEPT !.dpi_low = g, !.best_dpi = g, !.best = data]

\* (a variant in which a trial below the target lowers the upper bound)
FindOptimalDpiTrialSearchesLower(low, high, bdpi, bdata, data, t) ==
    LET g == DpiGuess(low, high)
        same == [dpi_low |-> low, dpi_high |-> high, best_dpi |-> bdpi,
                 best |-> bdata, ctl |-> "continue"]
    IN  IF Falsy(data) THEN [same EXCEPT !.dpi_high = g]
        ELSE IF t = 0 THEN [same EXCEPT !.ctl = "raise"]
        ELSE IF WithinTolerance(data.size, t)
             THEN [same EXCEPT !.best_dpi = g, !.best = data, !.ctl = "break"]
        ELSE IF data.size > t THEN [same EXCEPT !.dpi_high = g]
        ELSE [same EXCEPT !.dpi_high = g, !.best_dpi = g, !.best = data]

\* (a variant that records the DPI of a trial below the target, not its bytes)
FindOptimalDpiTrialDropsBytes(low, high, bdpi, bdata, data, t) ==
    LET g == DpiGuess(low, high)
        same == [dpi_low |-> low, dpi_high |-> high, best_dpi |-> bdpi,
                 best |-> bdata, ctl |-> "continue"]
    IN  IF Falsy(data) THEN [same EXCEPT !.dpi_high = g]
        ELSE IF t = 0 THEN [same EXCEPT !.ctl = "raise"]
        ELSE IF WithinTolerance(data.size, t)
             THEN [same EXCEPT !.best_dpi = g, !.best = data, !.ctl = "break"]
        ELSE IF data.size > t THEN [same EXCEPT !.dpi_high = g]
        ELSE [same EXCEPT !.dpi_low = g, !.best_dpi = g]

\* (a variant that makes the direction test before the tolerance test)
FindOptimalDpiTrialDirectionFirst(low, high, bdpi, bdata, data, t) ==
    LET g == DpiGuess(low, high)
        same == [dpi_low |-> low, dpi_high |-> high, best_dpi |-> bdpi,
                 best |-> bdata, ctl |-> "continue"]
    IN  IF Falsy(data) THEN [same EXCEPT !.dpi_high = g]
        ELSE IF t = 0 THEN [same EXCEPT !.ctl = "raise"]
        ELSE IF data.size > t THEN [same EXCEPT !.dpi_high = g]
        ELSE IF WithinTolerance(data.size, t)
             THEN [same EXCEPT !.best_dpi = g, !.best = data, !.ctl = "break"]
        ELSE [same EXCEPT !.dpi_low = g, !.best_dpi = g, !.best = data]

\* (a variant in which a trial that rendered nothing raises the lower bound)
FindOptimalDpiTrialFailureRaisesLow(low, high, bdpi, bdata, data, t) ==
    LET g == DpiGuess(low, high)
        same == [dpi_low |-> low, dpi_high |-> high, best_dpi |-> bdpi,
                 best |-> bdata, ctl |-> "continue"]
    IN  IF Falsy(data) THEN [same EXCEPT !.dpi_low = g]
        ELSE IF t = 0 THEN [same EXCEPT !.ctl = "raise"]
        ELSE IF WithinTolerance(data.size, t)
             THEN [same EXCEPT !.best_dpi = g, !.best = data, !.ctl = "break"]
        ELSE IF data.size > t THEN [same EXCEPT !.dpi_high = g]
        ELSE [same EXCEPT !.dpi_low = g, !.best_dpi = g, !.best = data]

\* The body of one iteration of _find_optimal_dpi after the render: what the
\* trial's result does to the bounds and to the best.  ctl is "continue"
\* (next iteration), "break" (accepted within tolerance) or "raise"
\* (ZeroDivisionError of the tolerance test).
FindOptimalDpiTrial(low, high, bdpi, bdata, data, t) ==
    LET g == DpiGuess(low, high)
        same == [dpi_low |-> low, dpi_high |-> high, best_dpi |-> bdpi,
                 best |-> bdata, ctl |-> "continue"]
    IN  IF Falsy(data) THEN [same EXCEPT !.dpi_high = g]
        ELSE IF t = 0 THEN [same EXCEPT !.ctl = "raise"]
        ELSE IF WithinTolerance(data.size, t)
             THEN [same EXCEPT !.best_dpi = g, !.best = data, !.ctl = "break"]
        ELSE IF data.size > t THEN [same EXCEPT !.dpi_high = g]
        ELSE [same EXCEPT !.dpi_low = g, !.best_dpi = g, !.best = data]

\* the finally clause of autocompress_pptx, run when the operation is left
DoUnwind ==
    /\ scratch' = Unwind(op, scratch)
    /\ cleanup_raised' = (cleanup_raised \/ UnwindRaises(op, scratch))

\* for i in range(ITERATIONS): one iteration; the loop ends (pc "search_done")
\* by the early exit, by an acceptance, or after the last iteration
FindOptimalDpiIter ==
    /\ pc = "search"
    /\ i < ITERATIONS
    /\ IF Converged(dpi_low, dpi_high)
       THEN /\ pc' = "search_done"
            /\ UNCHANGED <<localVars, countVars, scratch, cleanup_raised>>
       ELSE \E data \in GeneratePdfData(npages, DpiGuess(dpi_low, dpi_high), "trial") :
            \E r \in {FindOptimalDpiTrial(dpi_low, dpi_high, best_dpi, best_data,
                                         data, target)} :
                  /\ trials' = trials + 1
                  /\ renders' = renders + 1
                  /\ accepted' = (r.ctl = "break")
                  /\ IF r.ctl = "raise"
                     THEN /\ pc' = "raised"
                          /\ DropLocals
                          /\ DoUnwind
                     ELSE /\ dpi_low' = r.dpi_low
                          /\ dpi_high' = r.dpi_high
                          /\ best_dpi' = r.best_dpi
                          /\ best_data' = r.best
                          /\ i' = IF r.ctl = "continue" THEN i + 1 ELSE i
                          /\ pc' = IF r.ctl = "continue" /\ i + 1 < ITERATIONS
                                   THEN "search" ELSE "search_done"
                          /\ tried' = Record(tried, TrialEntry(DpiGuess(dpi_low, dpi_high),
                                                                data, target))
                          /\ UNCHANGED <<npages, best_path, scratch, cleanup_raised>>
    /\ UNCHANGED <<op, target, src, out, chainVars, log>>
    /\ UNCHANGED <<tracing, toolVars, guiVars>>

\* if original_size_mb <= target_size_mb: copy the source, no compression
PassThroughStrict(size, t) == size < t
PassThrough(size, t) == size <= t

\* -------------------------------------------------------- autocompress_pdf
\* The entry of autocompress_pdf (core.py and compress.py): the input check,
\* the pass-through copy, fitz.open (which raises for a file that is not a
\* readable document, a slide deck included), and the initial state of the
\* search.  The extension of the input is not looked at.
AutocompressPdfStart ==
    /\ pc = "start"
    /\ op \in PdfOps
    /\ \E openOk \in BOOLEAN :
         IF IsNone(src)
         THEN /\ log' = log \cup {"input_not_found"}
              /\ pc' = "returned"
              /\ UNCHANGED <<out, localVars>>
         ELSE IF PassThrough(src.size, target)
         THEN /\ log' = log \cup {"copy"}
              /\ out' = src
              /\ pc' = "returned"
              /\ UNCHANGED localVars
         ELSE IF ~openOk \/ src.kind # "pdf"
         THEN /\ log' = log \cup {"open_failed"}
              /\ pc' = "returned"
              /\ UNCHANGED <<out, localVars>>
         ELSE /\ SearchInit(src.pages)
              /\ pc' = "search"
              /\ UNCHANGED <<out, log>>
    /\ UNCHANGED <<op, target, src, scratch, countVars, chainVars>>
    /\ UNCHANGED <<tracing, cleanup_raised, toolVars, guiVars>>

\* After the search: re-render at best_dpi when no data was retained, then
\* write the output.  fitz.open of the re-render is outside any try.
AutocompressPdfFinish ==
    /\ pc = "search_done"
    /\ op \in PdfOps
    /\ IF IsNone(best_data)
       THEN \E openOk \in BOOLEAN :
              IF ~openOk
              THEN /\ pc' = "raised"
                   /\ UNCHANGED <<out, renders, log>>
              ELSE \E data \in GeneratePdfData(npages, best_dpi, "rerender") :
                     /\ renders' = renders + 1
                     /\ IF Falsy(data)
                        THEN /\ log' = log \cup {"regenerating", "final_failed"}
                             /\ UNCHANGED out
                        ELSE /\ log' = log \cup {"regenerating", "complete"}
                             /\ out' = data
                     /\ pc' = "returned"
       ELSE /\ out' = best_data
            /\ log' = log \cup {"complete"}
            /\ pc' = "returned"
            /\ UNCHANGED renders
    /\ DropLocals
    /\ UNCHANGED <<op, target, src, scratch, trials, accepted, chainVars>>
    /\ UNCHANGED <<tracing, cleanup_raised, toolVars, guiVars>>

\* ------------------------------------------------------------ convert_to_ppt
\* convert_to_ppt(input_path, output_path, dpi, logger): opens the PDF, renders
\* every page (no page is skipped: a render error propagates), and saves the
\* deck.  Its possible results for a PDF of content pdf: the call raised, or
\* a deck of one slide per page, of any size.
Raised == [kind |-> "raise", dpi |-> 0, pages |-> 0, size |-> 0, origin |-> "none"]
ConvertToPpt(pdf, dpi, o) ==
    {Raised} \cup {PptxData(dpi, pdf.pages, s, o) : s \in Sizes}

\* --------------------------------------------- _find_optimal_dpi_for_pptx
\* (a variant that does not delete the deck of the best it replaces)
FindOptimalDpiForPptxTrialKeepsOldBest(low, high, bdpi, bpath, fs, k, data, conv, t) ==
    LET g == DpiGuess(low, high)
        tpdf == <<"trial_pdf", k>>
        tpptx == <<"trial_pptx", k>>
        same == [dpi_low |-> low, dpi_high |-> high, best_dpi |-> bdpi,
                 best_path |-> bpath, fs |-> fs, ctl |-> "continue",
                 unlink_raised |-> FALSE]
        \* the two NamedTemporaryFile(delete=False) and the write of pdf_data
        fs1 == [fs EXCEPT ![tpdf] = data, ![tpptx] = EmptyFile]
        \* convert_to_ppt saved the deck over the empty temporary file
        fs2 == [fs1 EXCEPT ![tpptx] = conv]
        DropBest(f) == f
        DropBestRaises(f) == FALSE
        \* os.unlink(temp_pptx_path), under `if os.path.exists(temp_pptx_path)`
        DropTrial(f) == Cleanup(f, tpptx)
        \* finally: if os.path.exists(temp_pdf_path): os.unlink(temp_pdf_path)
        Finally(f) == Cleanup(f, tpdf)
        \* (an os.unlink that raised is reported in unlink_raised)
        r == IF Falsy(data) THEN [same EXCEPT !.dpi_high = g]
             ELSE IF conv.kind = "raise"
                  THEN [same EXCEPT !.fs = Finally(fs1), !.ctl = "raise",
                                    !.unlink_raised = CleanupRaises(fs1, tpdf)]
             ELSE IF IsNone(fs2[tpptx])
                  THEN [same EXCEPT !.dpi_high = g, !.fs = Finally(fs2),
                                    !.unlink_raised = CleanupRaises(fs2, tpdf)]
             ELSE IF t = 0
                  THEN [same EXCEPT !.fs = Finally(fs2), !.ctl = "raise",
                                    !.unlink_raised = CleanupRaises(fs2, tpdf)]
             ELSE IF WithinTolerance(fs2[tpptx].size, t)
                  THEN [same EXCEPT !.best_dpi = g, !.best_path = tpptx,
                                    !.fs = Finally(DropBest(fs2)), !.ctl = "break",
                                    !.unlink_raised = DropBestRaises(fs2)
                                        \/ CleanupRaises(DropBest(fs2), tpdf)]
             ELSE IF fs2[tpptx].size > t
                  THEN [same EXCEPT !.dpi_high = g, !.fs = Finally(DropTrial(fs2)),
                                    !.unlink_raised = CleanupRaises(fs2, tpptx)
                                        \/ CleanupRaises(DropTrial(fs2), tpdf)]
             ELSE [same EXCEPT !.dpi_low = g, !.best_dpi = g, !.best_path = tpptx,
                               !.fs = Finally(DropBest(fs2)),
                               !.unlink_raised = DropBestRaises(fs2)
                                   \/ CleanupRaises(DropBest(fs2), tpdf)]
    IN  r

\* The body of iteration k of _find_optimal_dpi_for_pptx after the render:
\* data is the rendered PDF, conv the result of convert_to_ppt on it, fs the
\* scratch files.  Returns the bounds, the best, the scratch files and ctl
\* ("continue", "break", or "raise" when convert_to_ppt or the tolerance
\* test raised; the finally clause has then run).
FindOptimalDpiForPptxTrial(low, high, bdpi, bpath, fs, k, data, conv, t) ==
    LET g == DpiGuess(low, high)
        tpdf == <<"trial_pdf", k>>
        tpptx == <<"trial_pptx", k>>
        same == [dpi_low |-> low, dpi_high |-> high, best_dpi |-> bdpi,
                 best_path |-> bpath, fs |-> fs, ctl |-> "continue",
                 unlink_raised |-> FALSE]
        \* the two NamedTemporaryFile(delete=False) and the write of pdf_data
        fs1 == [fs EXCEPT ![tpdf] = data, ![tpptx] = EmptyFile]
        \* convert_to_ppt saved the deck over the empty temporary file
        fs2 == [fs1 EXCEPT ![tpptx] = conv]
        \* if best_pptx_path and os.path.exists(best_pptx_path): os.unlink(..)
        DropBest(f) == Cleanup(f, bpath)
        DropBestRaises(f) == CleanupRaises(f, bpath)
        \* os.unlink(temp_pptx_path), under `if os.path.exists(temp_pptx_path)`
        DropTrial(f) == Cleanup(f, tpptx)
        \* finally: if os.path.exists(temp_pdf_path): os.unlink(temp_pdf_path)
        Finally(f) == Cleanup(f, tpdf)
        \* (an os.unlink that raised is reported in unlink_raised)
        r == IF Falsy(data) THEN [same EXCEPT !.dpi_high = g]
             ELSE IF conv.kind = "raise"
                  THEN [same EXCEPT !.fs = Finally(fs1), !.ctl = "raise",
                                    !.unlink_raised = CleanupRaises(fs1, tpdf)]
             ELSE IF IsNone(fs2[tpptx])
                  THEN [same EXCEPT !.dpi_high = g, !.fs = Finally(fs2),
                                    !.unlink_raised = CleanupRaises(fs2, tpdf)]
             ELSE IF t = 0
                  THEN [same EXCEPT !.fs = Finally(fs2), !.ctl = "raise",
                                    !.unlink_raised = CleanupRaises(fs2, tpdf)]
             ELSE IF WithinTolerance(fs2[tpptx].size, t)
                  THEN [same EXCEPT !.best_dpi = g, !.best_path = tpptx,
                                    !.fs = Finally(DropBest(fs2)), !.ctl = "break",
                                    !.unlink_raised = DropBestRaises(fs2)
                                        \/ CleanupRaises(DropBest(fs2), tpdf)]
             ELSE IF fs2[tpptx].size > t
                  THEN [same EXCEPT !.dpi_high = g, !.fs = Finally(DropTrial(fs2)),
                                    !.unlink_raised = CleanupRaises(fs2, tpptx)
                                        \/ CleanupRaises(DropTrial(fs2), tpdf)]
             ELSE [same EXCEPT !.dpi_low = g, !.best_dpi = g, !.best_path = tpptx,
                               !.fs = Finally(DropBest(fs2)),
                               !.unlink_raised = DropBestRaises(fs2)
                                   \/ CleanupRaises(DropBest(fs2), tpdf)]
    IN  r

FindOptimalDpiForPptxIter ==
    /\ pc = "pptx_search"
    /\ i < ITERATIONS
    /\ IF Converged(dpi_low, dpi_high)
       THEN /\ pc' = "pptx_search_done"
            /\ UNCHANGED <<localVars, countVars, scratch, cleanup_raised>>
       ELSE \E data \in GeneratePdfData(npages, DpiGuess(dpi_low, dpi_high), "trial") :
            \E conv \in IF Falsy(data) THEN {Raised}
                        ELSE ConvertToPpt(data, DpiGuess(dpi_low, dpi_high), "trial") :
            \E r \in {FindOptimalDpiForPptxTrial(dpi_low, dpi_high, best_dpi, best_path,
                                                scratch, i, data, conv, target)} :
                  /\ trials' = trials + 1
                  /\ renders' = renders + 1
                  /\ accepted' = (r.ctl = "break" /\ ~r.unlink_raised)
                  /\ scratch' = r.fs
                  /\ cleanup_raised' = (cleanup_raised \/ r.unlink_raised)
                  \* an exception of the iteration, an os.unlink's included
                  /\ IF r.ctl = "raise" \/ r.unlink_raised
                     THEN /\ pc' = "raised"
                          /\ DropLocals
                     ELSE /\ dpi_low' = r.dpi_low
                          /\ dpi_high' = r.dpi_high
                          /\ best_dpi' = r.best_dpi
                          /\ best_path' = r.best_path
                          /\ i' = IF r.ctl = "continue" THEN i + 1 ELSE i
                          /\ pc' = IF r.ctl = "continue" /\ i + 1 < ITERATIONS
                                   THEN "pptx_search" ELSE "pptx_search_done"
                          /\ tried' = Record(tried,
                                  TrialEntry(DpiGuess(dpi_low, dpi_high),
                                             IF Falsy(data) THEN NoData ELSE conv, target))
                          /\ UNCHANGED <<npages, best_data>>
    /\ UNCHANGED <<op, target, src, out, chainVars, log>>
    /\ UNCHANGED <<tracing, toolVars, guiVars>>

\* the best artifact of whichever search ran
BestArtifact == IF best_path # NoPath THEN scratch[best_path] ELSE best_data

\* ------------------------------------------------ autocompress_pdf_to_pptx
\* (a variant with the pass-through copy of autocompress_pdf)
AutocompressPdfToPptxStartPassThrough ==
    /\ pc = "start"
    /\ op = "autocompress_pdf_to_pptx"
    /\ \E openOk \in BOOLEAN :
         IF IsNone(src)
         THEN /\ log' = log \cup {"input_not_found"}
              /\ pc' = "returned"
              /\ UNCHANGED <<out, localVars>>
         ELSE IF src.kind # "pdf"
         THEN /\ log' = log \cup {"input_must_be_pdf"}
              /\ pc' = "returned"
              /\ UNCHANGED <<out, localVars>>
         ELSE IF PassThrough(src.size, target)
         THEN /\ log' = log \cup {"copy"}
              /\ out' = src
              /\ pc' = "returned"
              /\ UNCHANGED localVars
         ELSE IF ~openOk
         THEN /\ log' = log \cup {"open_failed"}
              /\ pc' = "returned"
              /\ UNCHANGED <<out, localVars>>
         ELSE /\ SearchInit(src.pages)
              /\ pc' = "pptx_search"
              /\ UNCHANGED <<out, log>>
    /\ UNCHANGED <<op, target, src, scratch, countVars, chainVars>>
    /\ UNCHANGED <<tracing, cleanup_raised, toolVars, guiVars>>

AutocompressPdfToPptxStart ==
    /\ pc = "start"
    /\ op = "autocompress_pdf_to_pptx"
    /\ \E openOk \in BOOLEAN :
         IF IsNone(src)
         THEN /\ log' = log \cup {"input_not_found"}
              /\ pc' = "returned"
              /\ UNCHANGED localVars
         ELSE IF src.kind # "pdf"
         THEN /\ log' = log \cup {"input_must_be_pdf"}
              /\ pc' = "returned"
              /\ UNCHANGED localVars
         ELSE IF ~openOk
         THEN /\ log' = log \cup {"open_failed"}
              /\ pc' = "returned"
              /\ UNCHANGED localVars
         ELSE /\ SearchInit(src.pages)
              /\ pc' = "pptx_search"
              /\ UNCHANGED log
    /\ UNCHANGED <<op, target, src, out, scratch, countVars, chainVars>>
    /\ UNCHANGED <<tracing, cleanup_raised, toolVars, guiVars>>

\* (a variant that, when the search retained no deck, renders once more at
\* best_dpi and writes the deck built from it, as autocompress_pdf does)
AutocompressPdfToPptxFinishRerenders ==
    /\ pc = "pptx_search_done"
    /\ op = "autocompress_pdf_to_pptx"
    /\ IF best_path = NoPath \/ IsNone(scratch[best_path])
       THEN /\ renders' = renders + 1
            /\ out' = PptxData(best_dpi, npages, MinSize, "rerender")
            /\ log' = log \cup {"complete"}
            /\ UNCHANGED <<scratch, cleanup_raised>>
       ELSE /\ out' = scratch[best_path]
            /\ scratch' = [scratch EXCEPT ![best_path] = NoData]
            /\ log' = log \cup {"complete"}
            /\ UNCHANGED <<renders, cleanup_raised>>
    /\ pc' = "returned"
    /\ DropLocals
    /\ UNCHANGED <<op, target, src, trials, accepted, chainVars>>
    /\ UNCHANGED <<tracing, toolVars, guiVars>>

\* After the nested search: shutil.move of the best deck to the output; a
\* failing move is caught and the deck deleted.
AutocompressPdfToPptxFinish ==
    /\ pc = "pptx_search_done"
    /\ op = "autocompress_pdf_to_pptx"
    /\ IF best_path = NoPath \/ IsNone(scratch[best_path])
       THEN /\ log' = log \cup {"failed_target_pptx"}
            /\ UNCHANGED <<out, scratch, cleanup_raised>>
       ELSE \E moveOk \in BOOLEAN :
              IF moveOk
              THEN /\ out' = scratch[best_path]
                   /\ scratch' = [scratch EXCEPT ![best_path] = NoData]
                   /\ log' = log \cup {"complete"}
                   /\ UNCHANGED cleanup_raised
              ELSE /\ log' = log \cup {"save_failed"}
                   /\ scratch' = Cleanup(scratch, best_path)
                   /\ cleanup_raised' = (cleanup_raised \/ CleanupRaises(scratch, best_path))
                   /\ UNCHANGED out
    /\ pc' = "returned"
    /\ DropLocals
    /\ UNCHANGED <<op, target, src, countVars, chainVars>>
    /\ UNCHANGED <<tracing, toolVars, guiVars>>

\* ------------------------------------------------- the conversion chain

\* The files a chain step reads and writes: the output path and the scratch
\* files.  The destination of the chain is the output path of
\* convert_pptx_to_pdf, or the temporary PDF of autocompress_pptx.
Files(o, f) == [out |-> o, fs |-> f]
GetDest(o, F) == IF o = "autocompress_pptx" THEN F.fs[TempPdf] ELSE F.out
PutDest(o, F, c) == IF o = "autocompress_pptx" THEN [F EXCEPT !.fs[TempPdf] = c]
                                               ELSE [F EXCEPT !.out = c]

\* what an external converter does when it is run
ToolOutcomes == {"absent", "nonzero", "timeout", "ok_doc", "ok_empty", "ok_nofile"}
\* what `<tool> --version` does: besides the three caught outcomes, any other
\* OSError of subprocess.run (PermissionError: found but not executable)
ProbeOutcomes == {"ok", "absent", "nonzero", "timeout", "oserror"}
ComOutcomes == {"import_error", "raise", "raise_after_doc", "ok_doc", "ok_nofile",
                "hang"}
FallbackOutcomes == {"ok", "load_error", "save_error"}

\* the PDF an external tool writes for a deck: one page per slide (one page
\* for a deck of no slide), not empty
ToolDoc(slides, o) == PdfData(0, IF slides = 0 THEN 1 ELSE slides, MinSize, o)

\* check_conversion_tools(): raised is TRUE when a probe raised an exception
\* that its except clause does not name
CheckConversionTools(pLo, pUno) ==
    [raised |-> (pLo = "oserror" \/ pUno = "oserror"),
     libreoffice |-> (pLo = "ok"),
     unoconv |-> (pLo # "oserror" /\ pUno = "ok")]

\* _convert_pptx_to_pdf_windows, the COM part: the files after it, and whether
\* it ended without an exception (then no other strategy is tried)
TryWindowsCom(o, F, outcome, doc) ==
    CASE outcome = "ok_doc" -> [files |-> PutDest(o, F, doc), success |-> TRUE]
      [] outcome = "ok_nofile" -> [files |-> F, success |-> TRUE]
      [] outcome = "raise_after_doc" -> [files |-> PutDest(o, F, doc), success |-> FALSE]
      [] OTHER -> [files |-> F, success |-> FALSE]

\* _try_libreoffice_conversion: mkdirOk is os.makedirs(output_dir) not
\* raising; sameName is expected_output = output_pdf; os.rename onto an
\* existing file raises on Windows.
TryLibreOffice(o, F, outcome, doc, sameName, mkdirOk, plat) ==
    LET fail == [files |-> F, success |-> FALSE]
        written == CASE outcome = "ok_doc" -> doc
                     [] outcome = "ok_empty" -> EmptyFile
                     [] OTHER -> IF sameName THEN GetDest(o, F) ELSE F.fs[LoExpected]
        F1 == IF sameName THEN PutDest(o, F, written)
                          ELSE [F EXCEPT !.fs[LoExpected] = written]
    IN  IF ~mkdirOk \/ outcome \in {"absent", "nonzero", "timeout"} THEN fail
        ELSE IF IsNone(written) THEN [files |-> F1, success |-> FALSE]
        ELSE IF sameName THEN [files |-> F1, success |-> TRUE]
        ELSE IF plat = "Windows" /\ ~IsNone(GetDest(o, F1))
             THEN [files |-> F1, success |-> FALSE]
        ELSE [files |-> PutDest(o, [F1 EXCEPT !.fs[LoExpected] = NoData], written),
              success |-> TRUE]

\* _try_unoconv_conversion: return os.path.exists(output_pdf)
TryUnoconv(o, F, outcome, doc) ==
    LET F1 == CASE outcome = "ok_doc" -> PutDest(o, F, doc)
                [] outcome = "ok_empty" -> PutDest(o, F, EmptyFile)
                [] OTHER -> F
    IN  IF outcome \in {"absent", "nonzero", "timeout"}
        THEN [files |-> F, success |-> FALSE]
        ELSE [files |-> F1, success |-> ~IsNone(GetDest(o, F1))]

\* (a variant that also takes a deck of one slide as empty)
FallbackMethodNeedsTwoSlides(o, F, outcome, slides) ==
    IF outcome = "load_error" THEN [files |-> F, result |-> "load_error"]
    ELSE IF slides <= 1 THEN [files |-> F, result |-> "no_slides"]
    ELSE IF outcome = "save_error" THEN [files |-> F, result |-> "save_error"]
    ELSE [files |-> PutDest(o, F, PdfData(0, slides, MinSize, "fallback")),
          result |-> "ok"]

\* _convert_pptx_fallback_method: one page per slide, each with the text-only
\* warning (origin "fallback"); nothing is written for a deck of no slide or
\* when Presentation() or doc.save() raises
FallbackMethod(o, F, outcome, slides) ==
    IF outcome = "load_error" THEN [files |-> F, result |-> "load_error"]
    ELSE IF slides = 0 THEN [files |-> F, result |-> "no_slides"]
    ELSE IF outcome = "save_error" THEN [files |-> F, result |-> "save_error"]
    ELSE [files |-> PutDest(o, F, PdfData(0, slides, MinSize, "fallback")),
          result |-> "ok"]

\* A conversion attempt: the strategy, how it ended, whether the chain took it
\* as a success, and the destination file after it.  A tool ends "error" (an
\* exception, a nonzero exit or a timeout) or "ok" (without error); the
\* fallback ends "ok", "no_slides", "load_error" or "save_error".
ToolExit(oc) ==
    CASE oc \in {"ok_doc", "ok_empty", "ok_nofile"} -> "ok"
      [] oc \in {"ok", "no_slides", "load_error", "save_error"} -> oc
      [] OTHER -> "error"
Attempt(st, oc, ok, d) == [strategy |-> st, exit |-> ToolExit(oc), success |-> ok, dest |-> d]

\* conversion_methods of _convert_pptx_to_pdf_cross_platform, in order
ConversionMethodsSwapped == <<"unoconv", "libreoffice">>
ConversionMethods == <<"libreoffice", "unoconv">>

\* where the chain goes after strategy st failed: the cross-platform method
\* after COM, the next entry of conversion_methods, the fallback after the last
AfterFailure(st) ==
    IF st = "com" THEN ConversionMethods[1]
    ELSE LET k == CHOOSE j \in 1 .. Len(ConversionMethods) : ConversionMethods[j] = st
         IN  IF k < Len(ConversionMethods) THEN ConversionMethods[k + 1] ELSE "fallback"

\* if platform.system() == "Windows": ... else: ...
Dispatch(plat) == IF plat = "Windows" THEN "com" ELSE ConversionMethods[1]

\* convert_pptx_to_pdf after its strategies returned: the message about the
\* output file, and the return to the caller
ChainEnd(F) ==
    /\ out' = F.out
    /\ scratch' = F.fs
    /\ log' = log \cup {IF IsNone(GetDest(op, F)) THEN "failed_output"
                                                  ELSE "conversion_complete"}
    /\ pc' = IF op = "autocompress_pptx" THEN "pptx_converted" ELSE "returned"

\* convert_pptx_to_pdf up to the dispatch on the platform.  The probes decide
\* only whether an advisory message is logged (log holds no advisory tags);
\* every strategy is tried whatever they found.
ConvertPptxToPdfStart ==
    /\ \/ pc = "start" /\ op = "convert_pptx_to_pdf"
       \/ pc = "chain_start"
    /\ IF IsNone(src)
       THEN /\ log' = log \cup {"input_not_found"}
            /\ pc' = "returned"
            /\ UNCHANGED <<scratch, platform, cleanup_raised>>
       ELSE \E pLo \in ProbeOutcomes, pUno \in ProbeOutcomes, plat \in {"Windows", "Other"} :
              LET tools == CheckConversionTools(pLo, pUno)
              IN  IF tools.raised
                  THEN /\ pc' = "raised"
                       /\ DoUnwind
                       /\ UNCHANGED <<log, platform>>
                  ELSE /\ platform' = plat
                       /\ pc' = Dispatch(plat)
                       /\ UNCHANGED <<scratch, log, cleanup_raised>>
    /\ UNCHANGED <<op, target, src, out, localVars, countVars, attempts>>
    /\ UNCHANGED <<tracing, toolVars, guiVars>>

ConvertPptxToPdfWindows ==
    /\ pc = "com"
    /\ \E outcome \in ComOutcomes :
         LET r == TryWindowsCom(op, Files(out, scratch), outcome, ToolDoc(src.pages, "com"))
         IN  IF outcome = "hang"
             \* a COM call that does not return: no timeout bounds it
             THEN /\ pc' = "com_hung"
                  /\ UNCHANGED <<attempts, out, scratch, log>>
             ELSE /\ attempts' = Append(attempts,
                          Attempt("com", outcome, r.success, GetDest(op, r.files)))
                  /\ IF r.success
                     THEN ChainEnd(r.files)
                     ELSE /\ out' = r.files.out
                          /\ scratch' = r.files.fs
                          /\ pc' = AfterFailure("com")
                          /\ UNCHANGED log
    /\ UNCHANGED <<op, target, src, localVars, countVars, platform>>
    /\ UNCHANGED <<tracing, cleanup_raised, toolVars, guiVars>>

TryLibreOfficeConversion ==
    /\ pc = "libreoffice"
    /\ \E outcome \in ToolOutcomes, mkdirOk \in BOOLEAN,
          sameName \in (IF op = "autocompress_pptx" THEN {FALSE} ELSE BOOLEAN) :
         LET r == TryLibreOffice(op, Files(out, scratch), outcome,
                                 ToolDoc(src.pages, "libreoffice"), sameName, mkdirOk, platform)
         IN  /\ attempts' = Append(attempts,
                     Attempt("libreoffice", outcome, r.success, GetDest(op, r.files)))
             /\ IF r.success
                THEN ChainEnd(r.files)
                ELSE /\ out' = r.files.out
                     /\ scratch' = r.files.fs
                     /\ pc' = AfterFailure("libreoffice")
                     /\ UNCHANGED log
    /\ UNCHANGED <<op, target, src, localVars, countVars, platform>>
    /\ UNCHANGED <<tracing, cleanup_raised, toolVars, guiVars>>

TryUnoconvConversion ==
    /\ pc = "unoconv"
    /\ \E outcome \in ToolOutcomes :
         LET r == TryUnoconv(op, Files(out, scratch), outcome, ToolDoc(src.pages, "unoconv"))
         IN  /\ attempts' = Append(attempts,
                     Attempt("unoconv", outcome, r.success, GetDest(op, r.files)))
             /\ IF r.success
                THEN ChainEnd(r.files)
                ELSE /\ out' = r.files.out
                     /\ scratch' = r.files.fs
                     /\ pc' = AfterFailure("unoconv")
                     /\ UNCHANGED log
    /\ UNCHANGED <<op, target, src, localVars, countVars, platform>>
    /\ UNCHANGED <<tracing, cleanup_raised, toolVars, guiVars>>

ConvertPptxFallbackMethod ==
    /\ pc = "fallback"
    /\ \E outcome \in FallbackOutcomes :
         LET r == FallbackMethod(op, Files(out, scratch), outcome, src.pages)
         IN  /\ attempts' = Append(attempts,
                     Attempt("fallback", r.result, r.result = "ok", GetDest(op, r.files)))
             /\ ChainEnd(r.files)
    /\ UNCHANGED <<op, target, src, localVars, countVars, platform>>
    /\ UNCHANGED <<tracing, cleanup_raised, toolVars, guiVars>>

\* -------------------------------------------------------- autocompress_pptx
\* The entry of autocompress_pptx: the input check, the pass-through copy,
\* and the temporary PDF (created empty) the deck is converted to.
AutocompressPptxStart ==
    /\ pc = "start"
    /\ op = "autocompress_pptx"
    /\ IF IsNone(src)
       THEN /\ log' = log \cup {"input_not_found"}
            /\ pc' = "returned"
            /\ UNCHANGED <<out, scratch>>
       ELSE IF PassThrough(src.size, target)
       THEN /\ log' = log \cup {"copy"}
            /\ out' = src
            /\ pc' = "returned"
            /\ UNCHANGED scratch
       ELSE /\ scratch' = [scratch EXCEPT ![TempPdf] = EmptyFile]
            /\ pc' = "chain_start"
            /\ UNCHANGED <<out, log>>
    /\ UNCHANGED <<op, target, src, localVars, countVars, chainVars>>
    /\ UNCHANGED <<tracing, cleanup_raised, toolVars, guiVars>>

\* Step 2 of autocompress_pptx, after convert_pptx_to_pdf returned: the check
\* of the temporary PDF, fitz.open of it (an empty file cannot be opened),
\* and the initial state of the search.  The chain's own state (its attempts,
\* the platform it read) ends with the chain.
AutocompressPptxOpen ==
    /\ pc = "pptx_converted"
    /\ attempts' = <<>>
    /\ platform' = "unknown"
    /\ \E openOk \in BOOLEAN :
         IF IsNone(scratch[TempPdf])
         THEN /\ log' = log \cup {"convert_failed"}
              /\ pc' = "returned"
              /\ DoUnwind
              /\ UNCHANGED localVars
         ELSE IF scratch[TempPdf].kind # "pdf" \/ ~openOk
         THEN /\ log' = log \cup {"open_failed"}
              /\ pc' = "returned"
              /\ DoUnwind
              /\ UNCHANGED localVars
         ELSE /\ SearchInit(scratch[TempPdf].pages)
              /\ pc' = "search"
              /\ UNCHANGED <<scratch, log, cleanup_raised>>
    /\ UNCHANGED <<op, target, src, out, countVars>>
    /\ UNCHANGED <<tracing, toolVars, guiVars>>

\* Step 3 of autocompress_pptx, after the search: the re-render when no data
\* was retained, the optimized PDF written to a scratch file, convert_to_ppt
\* of it to the output path, and the two finally clauses.
AutocompressPptxFinish ==
    /\ pc = "search_done"
    /\ op = "autocompress_pptx"
    /\ \E openOk \in BOOLEAN,
          data \in IF IsNone(best_data)
                   THEN GeneratePdfData(npages, best_dpi, "rerender") ELSE {best_data} :
         IF IsNone(best_data) /\ ~openOk
         THEN /\ pc' = "raised"
              /\ UNCHANGED <<out, renders, log>>
         ELSE /\ renders' = IF IsNone(best_data) THEN renders + 1 ELSE renders
              /\ IF Falsy(data)
                 THEN /\ log' = log \cup {"final_failed"}
                      /\ pc' = "returned"
                      /\ UNCHANGED out
                 ELSE \E conv \in ConvertToPpt(data, best_dpi, "final") :
                        IF conv.kind = "raise"
                        THEN /\ pc' = "raised"
                             /\ UNCHANGED <<out, log>>
                        ELSE /\ out' = conv
                             /\ log' = log \cup {"complete"}
                             /\ pc' = "returned"
    /\ DoUnwind
    /\ DropLocals
    /\ UNCHANGED <<op, target, src, trials, accepted, chainVars>>
    /\ UNCHANGED <<tracing, toolVars, guiVars>>

Next ==
    \/ AutocompressPdfStart
    \/ FindOptimalDpiIter
    \/ AutocompressPdfFinish
    \/ AutocompressPdfToPptxStart
    \/ FindOptimalDpiForPptxIter
    \/ AutocompressPdfToPptxFinish
    \/ AutocompressPptxStart
    \/ AutocompressPptxOpen
    \/ AutocompressPptxFinish
    \/ ConvertPptxToPdfStart
    \/ ConvertPptxToPdfWindows
    \/ TryLibreOfficeConversion
    \/ TryUnoconvConversion
    \/ ConvertPptxFallbackMethod

Spec == Init /\ [][Next]_vars

\* ------------------------------------------------- the chain, to its end
\* convert_pptx_to_pdf called on its own, and scheduled fairly: a call that
\* can return does return.
InitChain ==
    /\ op = "convert_pptx_to_pdf"
    /\ pc = "start"
    /\ target = 0
    /\ src \in SourcesOf(op)
    /\ out \in {NoData, OldFile}
    /\ scratch = [n \in ScratchNames |-> NoData]
    /\ npages = 0
    /\ i = 0
    /\ dpi_low = 0 /\ dpi_high = 0 /\ best_dpi = 0
    /\ best_data = NoData
    /\ best_path = NoPath
    /\ trials = 0
    /\ renders = 0
    /\ accepted = FALSE
    /\ platform = "unknown"
    /\ attempts = <<>>
    /\ log = {}
    /\ tracing = FALSE
    /\ tried = <<>>
    /\ cleanup_raised = FALSE
    /\ ToolsIdle
    /\ GuiIdle

NextChain ==
    \/ ConvertPptxToPdfStart
    \/ ConvertPptxToPdfWindows
    \/ TryLibreOfficeConversion
    \/ TryUnoconvConversion
    \/ ConvertPptxFallbackMethod

SpecChain == InitChain /\ [][NextChain]_vars /\ WF_vars(NextChain)

\* ------------------------------------------------- the search, trial by trial
\* The two searches run on their own, with the record of the trials kept:
\* autocompress_pdf and autocompress_pdf_to_pptx, called on a PDF that exists
\* and is larger than every target, with nothing at the output path.
SearchOps == {"autocompress_pdf", "autocompress_pdf_to_pptx"}
SearchSources == {SourceFile("pdf", p, MaxSize) : p \in 1 .. MaxPages}
InitSearch ==
    /\ op \in SearchOps
    /\ pc = "start"
    /\ target \in Targets
    /\ src \in SearchSources
    /\ out = NoData
    /\ scratch = [n \in ScratchNames |-> NoData]
    /\ npages = 0
    /\ i = 0
    /\ dpi_low = 0 /\ dpi_high = 0 /\ best_dpi = 0
    /\ best_data = NoData
    /\ best_path = NoPath
    /\ trials = 0
    /\ renders = 0
    /\ accepted = FALSE
    /\ platform = "unknown"
    /\ attempts = <<>>
    /\ log = {}
    /\ tracing = TRUE
    /\ tried = <<>>
    /\ cleanup_raised = FALSE
    /\ ToolsIdle
    /\ GuiIdle

NextSearch ==
    \/ AutocompressPdfStart
    \/ FindOptimalDpiIter
    \/ AutocompressPdfFinish
    \/ AutocompressPdfToPptxStart
    \/ FindOptimalDpiForPptxIter
    \/ AutocompressPdfToPptxFinish

SpecSearch == InitSearch /\ [][NextSearch]_vars

\* =============================================== the stand-alone functions
\* ------------------------------------------------------------ their inputs
Tools == {"get_file_type", "validate_input_file", "compress_pdf",
          "convert_to_ppt", "_convert_pptx_fallback_method", "autocompress"}
PdfSuffix == <<".", "p", "d", "f">>
PptxSuffix == <<".", "p", "p", "t", "x">>
\* Path(file_path).suffix, as the characters of the path: every spelling of
\* .pdf and .pptx, and suffixes that are neither
PdfSuffixes == {<<".", a, b, c>> : a \in {"p", "P"}, b \in {"d", "D"}, c \in {"f", "F"}}
PptxSuffixes ==
    {<<".", a, b, c, d>> : a \in {"p", "P"}, b \in {"p", "P"},
                           c \in {"t", "T"}, d \in {"x", "X"}}
OtherSuffixes ==
    {<<>>, <<".", "t", "x", "t">>, <<".", "P", "P", "T">>, <<".", "p", "d">>,
     <<".", "P", "D", "F", "x">>}
Suffixes == PdfSuffixes \cup PptxSuffixes \cup OtherSuffixes

InputPath(e, x, n) == [ext |-> e, exists |-> x, pages |-> n]
\* the suffixes of the paths given to autocompress: .pdf and .pptx in lower
\* and in upper case, a suffix that is not supported, and no suffix
DispatchSuffixes ==
    {PdfSuffix, <<".", "P", "D", "F">>, PptxSuffix, <<".", "P", "P", "T", "X">>,
     <<".", "t", "x", "t">>, <<>>}
InputsOf(t) ==
    CASE t \in {"get_file_type", "validate_input_file"} ->
           {InputPath(e, x, IF x THEN 1 ELSE 0) : e \in Suffixes, x \in BOOLEAN}
      [] t = "autocompress" ->
           {InputPath(e, x, IF x THEN 1 ELSE 0) : e \in DispatchSuffixes, x \in BOOLEAN}
      [] t = "compress_pdf" ->
           {InputPath(PdfSuffix, FALSE, 0)}
           \cup {InputPath(PdfSuffix, TRUE, n) : n \in 1 .. MaxPages}
      [] t = "convert_to_ppt" ->
           {InputPath(PdfSuffix, FALSE, 0)}
           \cup {InputPath(PdfSuffix, TRUE, n) : n \in 1 .. MaxDeckPages}
      [] OTHER -> {InputPath(PptxSuffix, TRUE, n) : n \in 0 .. MaxPages}
DpiArgs(t) == IF t \in {"compress_pdf", "convert_to_ppt"} THEN {72, 150} ELSE {0}
\* the suffix of the output path, for the function that reads it
OutputExts(t) == IF t = "autocompress" THEN DispatchSuffixes ELSE {<<>>}

\* ---------------------------------------- get_file_type, validate_input_file
\* (a variant that leaves the case of a character as it is)
LowerCharKeepsCase(c) == c
\* str.lower(), on one character of the alphabet of Suffixes
LowerChar(c) ==
    CASE c = "P" -> "p" [] c = "D" -> "d" [] c = "F" -> "f"
      [] c = "T" -> "t" [] c = "X" -> "x" [] OTHER -> c
Lower(w) == [k \in 1 .. Len(w) |-> LowerChar(w[k])]

SUPPORTED_INPUT_TYPES ==
    (PdfSuffix :> "PDF Document") @@ (PptxSuffix :> "PowerPoint Presentation")

\* ext = path.suffix.lower(); the description registered for ext, if any
GetFileType(path) ==
    LET ext == Lower(path.ext)
    IN  IF ext \in DOMAIN SUPPORTED_INPUT_TYPES
        THEN <<ext, SUPPORTED_INPUT_TYPES[ext]>>
        ELSE <<ext, "Unknown file type">>

\* (a variant without the test that the file exists)
ValidateInputFileAnyPath(path) ==
    GetFileType(path)[1] \in DOMAIN SUPPORTED_INPUT_TYPES
\* if not os.path.exists(file_path): return False; return ext in SUPPORTED_...
ValidateInputFile(path) ==
    IF ~path.exists THEN FALSE
    ELSE GetFileType(path)[1] \in DOMAIN SUPPORTED_INPUT_TYPES

\* ------------------------------------------------------------- one call
\* the locals of a call; quality is left as the call before left it
Call(t, p, d, o) ==
    /\ tool' = t /\ tpc' = "start"
    /\ output_ext' = o /\ route' = "none"
    /\ file_path' = p /\ dpi_arg' = d
    /\ ret' = NoRet /\ handles' = NoHandles
    /\ page_no' = 0 /\ image_list' = <<>>
    /\ failed' = {} /\ warned' = {}
    /\ output' = NoFile /\ error' = "none"
    /\ UNCHANGED quality

ToolsInit ==
    /\ tool \in Tools /\ tpc = "start"
    /\ file_path \in InputsOf(tool) /\ dpi_arg \in DpiArgs(tool)
    /\ ret = NoRet /\ handles = NoHandles
    /\ page_no = 0 /\ image_list = <<>>
    /\ failed = {} /\ warned = {} /\ quality = 0
    /\ output = NoFile /\ error = "none"
    /\ output_ext \in OutputExts(tool) /\ route = "none"

\* the next call, with a fresh output path
ToolCall ==
    /\ tpc \in {"returned", "raised"}
    /\ \E t \in Tools : \E p \in InputsOf(t), d \in DpiArgs(t), o \in OutputExts(t) :
         Call(t, p, d, o)
    /\ UNCHANGED <<mainVars, guiVars>>

GetFileTypeCall ==
    /\ tool = "get_file_type" /\ tpc = "start"
    /\ ret' = [ext |-> GetFileType(file_path)[1],
               desc |-> GetFileType(file_path)[2], valid |-> FALSE]
    /\ tpc' = "returned"
    /\ UNCHANGED <<output_ext, route>>
    /\ UNCHANGED <<tool, file_path, dpi_arg, handles, page_no, image_list,
                   failed, warned, quality, output, error>>
    /\ UNCHANGED <<mainVars, guiVars>>

ValidateInputFileCall ==
    /\ tool = "validate_input_file" /\ tpc = "start"
    /\ ret' = [NoRet EXCEPT !.valid = ValidateInputFile(file_path)]
    /\ tpc' = "returned"
    /\ UNCHANGED <<output_ext, route>>
    /\ UNCHANGED <<tool, file_path, dpi_arg, handles, page_no, image_list,
                   failed, warned, quality, output, error>>
    /\ UNCHANGED <<mainVars, guiVars>>

\* ------------------------------------------------------------ autocompress
\* (a variant that also sends PPTX -> PDF to autocompress_pptx)
AutocompressRouteAnyDeck(path, out_suffix) ==
    LET input_ext == GetFileType(path)[1]
        output_ext_ == Lower(out_suffix)
    IN  IF ~ValidateInputFile(path) THEN "invalid"
        ELSE IF input_ext = PdfSuffix /\ output_ext_ = PdfSuffix THEN "autocompress_pdf"
        ELSE IF input_ext = PptxSuffix THEN "autocompress_pptx"
        ELSE IF input_ext = PdfSuffix /\ output_ext_ = PptxSuffix
             THEN "autocompress_pdf_to_pptx"
        ELSE "unsupported"
\* autocompress: the input check, then the dispatch on input_ext (lower case,
\* from get_file_type) and output_ext = Path(output_path).suffix.lower().
\* The result names the routine called, or the error reported: "invalid"
\* (Unsupported file type or file not found) or "unsupported" (Unsupported
\* conversion).
AutocompressRoute(path, out_suffix) ==
    LET input_ext == GetFileType(path)[1]
        output_ext_ == Lower(out_suffix)
    IN  IF ~ValidateInputFile(path) THEN "invalid"
        ELSE IF input_ext = PdfSuffix /\ output_ext_ = PdfSuffix THEN "autocompress_pdf"
        ELSE IF input_ext = PptxSuffix /\ output_ext_ = PptxSuffix THEN "autocompress_pptx"
        ELSE IF input_ext = PdfSuffix /\ output_ext_ = PptxSuffix
             THEN "autocompress_pdf_to_pptx"
        ELSE "unsupported"

\* One call of autocompress, up to the call of the routine it selects (the
\* routine itself is the subject of the other specifications).  Nothing is
\* opened or written by autocompress itself.
AutocompressCall ==
    /\ tool = "autocompress" /\ tpc = "start"
    /\ route' = AutocompressRoute(file_path, output_ext)
    /\ tpc' = "returned"
    /\ UNCHANGED <<tool, file_path, dpi_arg, ret, handles, page_no, image_list,
                   failed, warned, quality, output, error, output_ext>>
    /\ UNCHANGED <<mainVars, guiVars>>

\* --------------------------------------------------------------- pages
\* one page of an artifact: the source page or slide it shows, and whether
\* it carries the text-only warning of the fallback
Page(n, m) == [src |-> n, marker |-> m]
Opened(h) == [h EXCEPT !.opened = @ + 1]
Closed(h) == [h EXCEPT !.closed = @ + 1]

\* (a variant that opens a path that does not exist as an empty document)
OpenRaisesOnlyIfUnreadable(path, openOk) == path.exists /\ ~openOk
\* fitz.open(input_path) raises for a missing and for an unreadable file
OpenRaises(path, openOk) == ~path.exists \/ ~openOk

\* ---------------------------------------------------------- compress_pdf
\* doc = fitz.open(input_path): raises for a missing or unreadable file
CompressPdfOpen ==
    /\ tool = "compress_pdf" /\ tpc = "start"
    /\ \E openOk \in BOOLEAN :
         IF OpenRaises(file_path, openOk)
         THEN /\ error' = "open" /\ tpc' = "raised"
              /\ UNCHANGED handles
         ELSE /\ handles' = Opened(handles) /\ tpc' = "render"
              /\ UNCHANGED error
    /\ UNCHANGED <<output_ext, route>>
    /\ UNCHANGED <<tool, file_path, dpi_arg, ret, page_no, image_list, failed,
                   warned, quality, output>>
    /\ UNCHANGED <<mainVars, guiVars>>

\* one iteration of the page loop of _generate_pdf_data: the page's image is
\* appended, or the exception is caught, a warning logged, the page skipped
GeneratePdfDataPage ==
    /\ tool = "compress_pdf" /\ tpc = "render"
    /\ page_no < file_path.pages
    /\ page_no' = page_no + 1
    /\ \E ok \in BOOLEAN :
         IF ok
         THEN /\ image_list' = Append(image_list, Page(page_no + 1, FALSE))
              /\ UNCHANGED <<failed, warned>>
         ELSE /\ failed' = failed \cup {page_no + 1}
              /\ warned' = warned \cup {page_no + 1}
              /\ UNCHANGED image_list
    /\ UNCHANGED <<output_ext, route>>
    /\ UNCHANGED <<tool, tpc, file_path, dpi_arg, ret, handles, quality,
                   output, error>>
    /\ UNCHANGED <<mainVars, guiVars>>

\* the end of _generate_pdf_data (None without images, else the images saved
\* to a buffer, which may raise), then doc.close() and the write of the data
CompressPdfFinish ==
    /\ tool = "compress_pdf" /\ tpc = "render"
    /\ page_no = file_path.pages
    /\ \E saveOk \in BOOLEAN :
         IF image_list # <<>> /\ ~saveOk
         THEN /\ error' = "build" /\ tpc' = "raised"
              /\ UNCHANGED <<handles, output>>
         ELSE /\ handles' = Closed(handles)
              /\ output' = IF image_list # <<>>
                           THEN [kind |-> "pdf", pages |-> image_list]
                           ELSE output
              /\ tpc' = "returned"
              /\ UNCHANGED error
    /\ UNCHANGED <<output_ext, route>>
    /\ UNCHANGED <<tool, file_path, dpi_arg, ret, page_no, image_list, failed,
                   warned, quality>>
    /\ UNCHANGED <<mainVars, guiVars>>

\* ------------------------------------------------- saving to a path
\* prs.save(output_path) and doc.save(output_path) open the output path
\* itself for writing and write the document into it.  A save ends in one of
\* three ways: the document is written; the path could not be opened and is
\* left as it was; or the write failed after the file was opened and
\* truncated (disk full, I/O error), which leaves a part of the document.
SaveOutcomes == {"saved", "refused", "cut"}
PartialFile == [kind |-> "partial", pages |-> <<>>]
SaveFailed(old, save) == IF save = "cut" THEN PartialFile ELSE old

\* -------------------------------------------------------- convert_to_ppt
\* (a variant whose thresholds include 20 and 50)
QualityInclusive(total_pages) ==
    IF total_pages >= 50 THEN 70 ELSE IF total_pages >= 20 THEN 80 ELSE 85
\* if total_pages > 50: 70; elif total_pages > 20: 80; else: 85
Quality(total_pages) ==
    IF total_pages > 50 THEN 70 ELSE IF total_pages > 20 THEN 80 ELSE 85

\* doc = fitz.open(input_path); total_pages = len(doc); quality
ConvertToPptOpen ==
    /\ tool = "convert_to_ppt" /\ tpc = "start"
    /\ \E openOk \in BOOLEAN :
         IF OpenRaises(file_path, openOk)
         THEN /\ error' = "open" /\ tpc' = "raised"
              /\ UNCHANGED <<handles, quality>>
         ELSE /\ handles' = Opened(handles)
              /\ quality' = Quality(file_path.pages)
              /\ tpc' = "slides"
              /\ UNCHANGED error
    /\ UNCHANGED <<output_ext, route>>
    /\ UNCHANGED <<tool, file_path, dpi_arg, ret, page_no, image_list, failed,
                   warned, output>>
    /\ UNCHANGED <<mainVars, guiVars>>

\* one iteration of the page loop: page.get_pixmap and the slide's picture,
\* outside any try
ConvertToPptPage ==
    /\ tool = "convert_to_ppt" /\ tpc = "slides"
    /\ page_no < file_path.pages
    /\ \E ok \in BOOLEAN :
         IF ok
         THEN /\ image_list' = Append(image_list, Page(page_no + 1, FALSE))
              /\ page_no' = page_no + 1
              /\ UNCHANGED <<failed, error, tpc>>
         ELSE /\ failed' = failed \cup {page_no + 1}
              /\ error' = "render" /\ tpc' = "raised"
              /\ UNCHANGED <<image_list, page_no>>
    /\ UNCHANGED <<output_ext, route>>
    /\ UNCHANGED <<tool, file_path, dpi_arg, ret, handles, warned, quality,
                   output>>
    /\ UNCHANGED <<mainVars, guiVars>>

\* doc.close(); prs.save(output_path)
ConvertToPptSave ==
    /\ tool = "convert_to_ppt" /\ tpc = "slides"
    /\ page_no = file_path.pages
    /\ handles' = Closed(handles)
    /\ \E save \in SaveOutcomes :
         IF save = "saved"
         THEN /\ output' = [kind |-> "pptx", pages |-> image_list]
              /\ tpc' = "returned"
              /\ UNCHANGED error
         ELSE /\ error' = "save" /\ tpc' = "raised"
              /\ output' = SaveFailed(output, save)
    /\ UNCHANGED <<output_ext, route>>
    /\ UNCHANGED <<tool, file_path, dpi_arg, ret, page_no, image_list, failed,
                   warned, quality>>
    /\ UNCHANGED <<mainVars, guiVars>>

\* ----------------------------------------- _convert_pptx_fallback_method
\* (a variant whose page lacks the warning text)
FallbackPageNoWarning(k) == Page(k, FALSE)
\* the page of slide k: its title, its texts and the text-only warning
FallbackPage(k) == Page(k, TRUE)

\* prs = Presentation(input_path); total_slides == 0 returns; doc = fitz.open()
FallbackOpen ==
    /\ tool = "_convert_pptx_fallback_method" /\ tpc = "start"
    /\ \E loadOk \in BOOLEAN :
         IF ~loadOk
         THEN /\ error' = "load" /\ tpc' = "returned"
              /\ UNCHANGED handles
         ELSE IF file_path.pages = 0
         THEN /\ error' = "no_slides" /\ tpc' = "returned"
              /\ UNCHANGED handles
         ELSE /\ handles' = Opened(handles) /\ tpc' = "pages"
              /\ UNCHANGED error
    /\ UNCHANGED <<output_ext, route>>
    /\ UNCHANGED <<tool, file_path, dpi_arg, ret, page_no, image_list, failed,
                   warned, quality, output>>
    /\ UNCHANGED <<mainVars, guiVars>>

\* one iteration of the slide loop; an exception ends the function in its
\* except clause
FallbackSlide ==
    /\ tool = "_convert_pptx_fallback_method" /\ tpc = "pages"
    /\ page_no < file_path.pages
    /\ \E ok \in BOOLEAN :
         IF ok
         THEN /\ image_list' = Append(image_list, FallbackPage(page_no + 1))
              /\ page_no' = page_no + 1
              /\ UNCHANGED <<failed, error, tpc>>
         ELSE /\ failed' = failed \cup {page_no + 1}
              /\ error' = "slide" /\ tpc' = "returned"
              /\ UNCHANGED <<image_list, page_no>>
    /\ UNCHANGED <<output_ext, route>>
    /\ UNCHANGED <<tool, file_path, dpi_arg, ret, handles, warned, quality,
                   output>>
    /\ UNCHANGED <<mainVars, guiVars>>

\* doc.save(output_path); doc.close()
FallbackSave ==
    /\ tool = "_convert_pptx_fallback_method" /\ tpc = "pages"
    /\ page_no = file_path.pages
    /\ \E save \in SaveOutcomes :
         IF save = "saved"
         THEN /\ output' = [kind |-> "pdf", pages |-> image_list]
              /\ handles' = Closed(handles)
              /\ UNCHANGED error
         ELSE /\ error' = "save"
              /\ output' = SaveFailed(output, save)
              /\ UNCHANGED handles
    /\ tpc' = "returned"
    /\ UNCHANGED <<output_ext, route>>
    /\ UNCHANGED <<tool, file_path, dpi_arg, ret, page_no, image_list, failed,
                   warned, quality>>
    /\ UNCHANGED <<mainVars, guiVars>>

ToolsNext ==
    \/ ToolCall
    \/ GetFileTypeCall
    \/ ValidateInputFileCall
    \/ CompressPdfOpen
    \/ GeneratePdfDataPage
    \/ CompressPdfFinish
    \/ ConvertToPptOpen
    \/ ConvertToPptPage
    \/ ConvertToPptSave
    \/ FallbackOpen
    \/ FallbackSlide
    \/ FallbackSave
    \/ AutocompressCall

InitTools == MainIdle /\ ToolsInit /\ GuiIdle
SpecTools == InitTools /\ [][ToolsNext]_vars

\* ============================================================ the GUI
Buttons == {"btn-custom-auto", "btn-custom-manual", "btn-custom-ppt", "btn-auto",
            "btn-manual", "btn-ppt", "btn-pptx-pdf", "btn-refresh-info"}
Formats == {"format-pdf", "format-pptx", "none"}
\* the files a selection accepts: they exist and validate_input_file holds
GuiFiles == {p \in InputsOf("validate_input_file") :
                ValidateInputFile(p) /\ p.ext \in {PdfSuffix, PptxSuffix}}
\* f"{base}<tag><ext>", for the one base name of the session's directory
OutputPath(tag, ext) == <<tag, ext>>
Job(n, w, o) == [id |-> n, worker |-> w, output |-> o]
NoJob(msg) == [worker |-> "none", output |-> OutputPath("none", <<>>), log |-> msg]
Start(w, o) == [worker |-> w, output |-> o, log |-> "started"]

\* the body of on_button_pressed for a selected file: the worker it starts
\* and the output path it gives it, or the message it writes instead
ButtonJob(button, path, valid, fmt) ==
    LET input_ext == GetFileType(path)[1] IN
    CASE button = "btn-custom-auto" ->
           Start("worker_autocompress", OutputPath("_auto_compressed", input_ext))
      [] button = "btn-custom-manual" ->
           Start("worker_manual_compress", OutputPath("_manual_compressed", PdfSuffix))
      [] button = "btn-custom-ppt" ->
           Start("worker_convert_ppt", OutputPath("_converted", PptxSuffix))
      [] button = "btn-auto" ->
           IF ~valid THEN NoJob("invalid_target")
           ELSE Start("worker_autocompress",
                      OutputPath("_auto_compressed",
                                 CASE fmt = "format-pdf" -> PdfSuffix
                                   [] fmt = "format-pptx" -> PptxSuffix
                                   [] OTHER -> input_ext))
      [] button = "btn-manual" ->
           IF ~valid THEN NoJob("invalid_dpi")
           ELSE Start("worker_manual_compress", OutputPath("_manual_compressed", PdfSuffix))
      [] button = "btn-ppt" ->
           IF input_ext # PdfSuffix THEN NoJob("requires_pdf")
           ELSE IF ~valid THEN NoJob("invalid_dpi")
           ELSE Start("worker_convert_ppt", OutputPath("_converted", PptxSuffix))
      [] button = "btn-pptx-pdf" ->
           IF input_ext # PptxSuffix THEN NoJob("requires_pptx")
           ELSE Start("worker_convert_pptx_to_pdf", OutputPath("_converted", PdfSuffix))
      [] OTHER -> NoJob("refreshed")

\* a selection in the file tree or a custom path: a supported file, or None
SelectFile ==
    /\ \E f \in GuiFiles \cup {NoInput} : selected_path' = f
    /\ UNCHANGED <<jobs, started, gui_log>>
    /\ UNCHANGED <<mainVars, toolVars>>

\* on_button_pressed: the handler runs to its end on the UI thread; a worker
\* call (@work(thread=True)) starts a thread and returns at once
OnButtonPressed ==
    /\ \E button \in Buttons, valid \in BOOLEAN, fmt \in Formats :
         LET d == IF selected_path = NoInput THEN NoJob("no_file_selected")
                  ELSE ButtonJob(button, selected_path, valid, fmt)
         IN  /\ gui_log' = d.log
             /\ IF d.worker = "none"
                THEN UNCHANGED <<jobs, started>>
                ELSE /\ started < MaxJobs
                     /\ started' = started + 1
                     /\ jobs' = jobs \cup {Job(started + 1, d.worker, d.output)}
    /\ UNCHANGED selected_path
    /\ UNCHANGED <<mainVars, toolVars>>

\* a worker thread ends
WorkerDone ==
    /\ \E j \in jobs : jobs' = jobs \ {j}
    /\ UNCHANGED <<selected_path, started, gui_log>>
    /\ UNCHANGED <<mainVars, toolVars>>

GuiNext ==
    \/ SelectFile
    \/ OnButtonPressed
    \/ WorkerDone

\* the session after on_mount: nothing selected, no worker
InitGui == MainIdle /\ ToolsIdle /\ GuiIdle
SpecGui == InitGui /\ [][GuiNext]_vars

\* ===================================================================== claims
InSearch == pc \in {"search", "pptx_search", "search_done", "pptx_search_done"}
SearchDone == pc \in {"search_done", "pptx_search_done"}

\* C1: both DPI searches end after at most 7 trials, whatever the trials'
\* outcomes: every iteration is one more trial, the loop index equals the
\* number of trials, a further iteration is possible only below 7; and the
\* best DPI a search returns lies in [30, 300].
C1_SearchBounded ==
    /\ trials <= 7
    /\ pc \in {"search", "pptx_search"} => i = trials /\ i < 7
    /\ SearchDone => 30 * Scale <= best_dpi /\ best_dpi <= 300 * Scale
\* a search that ran all 7 trials without an acceptance has returned
C1_Witness == SearchDone /\ trials = 7 /\ ~accepted /\ best_dpi > 30 * Scale
\* the same for the nested search
C1_WitnessPptx == pc = "pptx_search_done" /\ trials = 7

\* C2: after every bisection step dpi_low <= dpi_high, and neither bound is
\* ever outside [30, 300].
C2_BoundsOrdered ==
    InSearch => /\ dpi_low <= dpi_high
                /\ 30 * Scale <= dpi_low /\ dpi_low <= 300 * Scale
                /\ 30 * Scale <= dpi_high /\ dpi_high <= 300 * Scale
\* both bounds have moved and the search goes on
C2_Witness == pc = "pptx_search" /\ dpi_low > 30 * Scale /\ dpi_high < 300 * Scale /\ i >= 3

\* C3: dpi_low <= best_dpi <= dpi_high in every state of a search, also
\* after a within-tolerance acceptance.
C3_BestBetweenBounds == InSearch => dpi_low <= best_dpi /\ best_dpi <= dpi_high
\* an acceptance strictly inside bounds that have both moved
C3_Witness ==
    /\ SearchDone /\ accepted
    /\ 30 * Scale < dpi_low /\ dpi_low < best_dpi /\ best_dpi < dpi_high
    /\ dpi_high < 300 * Scale

\* autocompress_pdf ran the search and wrote the output file
PdfWritten == op \in PdfOps /\ pc = "returned" /\ "complete" \in log /\ trials > 0
\* size is within the tolerance of the target, or not larger than the target
SizeAcceptable(size, t) == Abs(size - t) * TolDen <= TolNum * t \/ size <= t

\* C4 as stated: whenever autocompress_pdf runs the search for a positive
\* target and writes an output file, the size of that file is within the
\* tolerance of the target or not larger than the target.
C4_Original == PdfWritten /\ target > 0 => SizeAcceptable(out.size, target)

\* C4 (amended): whenever autocompress_pdf runs the search for a positive
\* target and writes an output file, the file is either the artifact the
\* search retained, of a size within the tolerance of the target or not
\* larger than the target, or, when the search retained nothing (every trial
\* was oversized or failed), the re-render at DPI 30, of whatever size.
C4_WrittenIsBestOrRerender ==
    PdfWritten /\ target > 0 =>
        \/ /\ out.origin = "trial"
           /\ SizeAcceptable(out.size, target)
        \/ /\ out.origin = "rerender"
           /\ out.dpi = 30 * Scale
           /\ trials = 7 /\ ~accepted
\* an undershoot outside the tolerance was written, and in another run an
\* oversized re-render
C4_Witness ==
    /\ PdfWritten /\ target > 0 /\ out.origin = "trial"
    /\ out.size < target /\ ~accepted /\ Abs(out.size - target) * TolDen > TolNum * target
C4_WitnessRerender ==
    PdfWritten /\ target > 0 /\ out.origin = "rerender" /\ out.size > target

\* C5: in autocompress_pdf and autocompress_pptx, when the source is not
\* larger than the target, the output is a copy of the source (same bytes),
\* and there is no search trial, no render, no conversion attempt and no
\* scratch file.
C5_PassThroughIsCopy ==
    (op \in PdfOps \cup {"autocompress_pptx"}) /\ ~IsNone(src) /\ src.size <= target =>
        /\ pc \in {"start", "returned"}
        /\ pc = "returned" => out = src
        /\ trials = 0 /\ renders = 0 /\ attempts = <<>>
        /\ \A n \in ScratchNames : IsNone(scratch[n])
\* a source of exactly the target size was copied by autocompress_pptx
C5_Witness ==
    /\ op = "autocompress_pptx" /\ pc = "returned" /\ src.size = target
    /\ out = src /\ "copy" \in log

\* ------------------------------------------------------ the conversion chain
\* convert_pptx_to_pdf, called on an existing input, has returned
ChainEnded ==
    \/ op = "convert_pptx_to_pdf" /\ pc = "returned" /\ ~IsNone(src)
    \/ pc = "pptx_converted"
\* the file at the destination path of the chain
Dest == GetDest(op, Files(out, scratch))
\* every external tool that was tried was absent, failed or timed out
ToolsAllFailed ==
    \A k \in 1 .. Len(attempts) :
        attempts[k].strategy # "fallback" => attempts[k].exit = "error"
\* the deck could be read and the fallback's document could be saved
NoFallbackIoError ==
    \A k \in 1 .. Len(attempts) : attempts[k].exit \notin {"load_error", "save_error"}

StrategyOrder ==
    IF platform = "Windows" THEN <<"com", "libreoffice", "unoconv", "fallback">>
                            ELSE <<"libreoffice", "unoconv", "fallback">>
ChainRunning == pc \in {"com", "libreoffice", "unoconv", "fallback"}

\* C7: the strategies are attempted in the order native automation (Windows
\* only), LibreOffice, unoconv, text reconstruction; each is attempted only
\* after all earlier ones were attempted and failed; after a success no
\* further strategy is attempted.
C7_FixedOrderNoBacktracking ==
    /\ Len(attempts) <= Len(StrategyOrder)
    /\ \A k \in 1 .. Len(attempts) :
         /\ attempts[k].strategy = StrategyOrder[k]
         /\ k < Len(attempts) => ~attempts[k].success
         /\ attempts[k].success => ~ChainRunning
    /\ ChainRunning => pc = StrategyOrder[Len(attempts) + 1]
\* on Windows unoconv succeeded after COM and LibreOffice had failed
C7_Witness ==
    /\ ChainEnded /\ platform = "Windows" /\ Len(attempts) = 3
    /\ attempts[3].strategy = "unoconv" /\ attempts[3].success

\* C8 as stated: no exception of a try step (availability probe, native
\* automation, LibreOffice, unoconv) propagates out of convert_pptx_to_pdf.
C8_Original == ~(op = "convert_pptx_to_pdf" /\ pc = "raised")

\* C9 as stated: whenever convert_pptx_to_pdf, called on an existing input,
\* ends reporting that the output could not be created, the text
\* reconstruction was attempted in that call and failed.
C9_Original ==
    ChainEnded /\ "failed_output" \in log =>
        \E k \in 1 .. Len(attempts) :
            attempts[k].strategy = "fallback" /\ ~attempts[k].success

\* C10 as stated: a try step (native automation, LibreOffice, unoconv) counts
\* as a success only if its tool ended without error and the destination
\* file after the step is a document of nonzero size that this step wrote.
C10_Original ==
    \A k \in 1 .. Len(attempts) :
        attempts[k].strategy # "fallback" /\ attempts[k].success =>
            /\ attempts[k].exit = "ok"
            /\ attempts[k].dest.kind = "pdf"
            /\ attempts[k].dest.size > 0
            /\ attempts[k].dest.origin = attempts[k].strategy

\* ------------------------------------------------------------ scratch files
\* autocompress_pdf_to_pptx or autocompress_pptx has ended, by return or raise
ScratchOpEnded ==
    /\ op \in {"autocompress_pdf_to_pptx", "autocompress_pptx"}
    /\ pc \in {"returned", "raised"}

\* C11 as stated: after autocompress_pdf_to_pptx or autocompress_pptx ends by
\* any path, an exception raised by a trial's deck conversion included, no
\* scratch file created by the operation remains.
C11_Original ==
    ScratchOpEnded => \A n \in ScratchNames : IsNone(scratch[n])

\* -------------------------------------------------------- input errors
\* the input is missing, or its extension is not the one the routine handles
InputRejected ==
    \/ IsNone(src)
    \/ src.kind # (IF op = "autocompress_pptx" THEN "pptx" ELSE "pdf")
ErrorTags == {"input_not_found", "input_must_be_pdf", "open_failed"}

\* C14 as stated: in every auto-compress entry point, when the input file is
\* missing, has an unsupported extension or cannot be opened, the error is
\* logged, no search trial runs, and the output path is neither created nor
\* modified.
C14_Original ==
    op \in PdfOps \cup {"autocompress_pptx", "autocompress_pdf_to_pptx"} /\ InputRejected =>
        /\ trials = 0
        /\ out.origin \in {"none", "old"}
        /\ pc = "returned" => log \cap ErrorTags # {}

\* ------------------------------------------------- the stand-alone functions
ToolEnded == tpc \in {"returned", "raised"}

\* C12 as stated: every document handle opened by compress_pdf or
\* convert_to_ppt is closed exactly once before the operation ends, on every
\* exit path, the paths where artifact building or a page render raises
\* included.
C12_Original ==
    tool \in {"compress_pdf", "convert_to_ppt"} /\ ToolEnded =>
        handles.closed = handles.opened

\* the source pages shown by the pages of the written artifact
OutputSources == {output.pages[k].src : k \in 1 .. Len(output.pages)}

\* C13 as stated: in compress_pdf and convert_to_ppt an error while rendering
\* one page makes only that page skipped, with a logged warning; the
\* operation continues and builds its artifact from the pages that rendered.
C13_Original ==
    tool \in {"compress_pdf", "convert_to_ppt"} /\ failed # {} =>
        /\ error # "render"
        /\ failed \subseteq warned
        /\ tpc = "returned" /\ output.kind # "none" =>
               OutputSources = (1 .. file_path.pages) \ failed

\* C15: compress_pdf called with an input path that does not exist raises to
\* its caller, from fitz.open, and neither opens a handle nor creates an
\* output file.
C15_MissingInputRaises ==
    tool = "compress_pdf" /\ ~file_path.exists =>
        /\ tpc \in {"start", "raised"}
        /\ tpc = "raised" => error = "open"
        /\ output = NoFile
        /\ handles = NoHandles
        /\ page_no = 0
C15_Witness ==
    tool = "compress_pdf" /\ ~file_path.exists /\ tpc = "raised" /\ output = NoFile

\* a lower-case character and its upper-case spelling
CasePairs == {<<"p", "P">>, <<"d", "D">>, <<"f", "F">>, <<"t", "T">>, <<"x", "X">>}
\* w is v with every upper-case character replaced by its lower-case one
IsLowerCased(w, v) ==
    /\ Len(w) = Len(v)
    /\ \A k \in 1 .. Len(v) :
         /\ \A pr \in CasePairs : w[k] # pr[2]
         /\ w[k] = v[k] \/ <<w[k], v[k]>> \in CasePairs
\* v and w differ in letter case only
SameButCase(v, w) ==
    /\ Len(w) = Len(v)
    /\ \A k \in 1 .. Len(v) :
         \/ w[k] = v[k] \/ <<w[k], v[k]>> \in CasePairs \/ <<v[k], w[k]>> \in CasePairs

\* C16: get_file_type returns the lower-cased extension and the description
\* registered for it ('.pdf': 'PDF Document', '.pptx': 'PowerPoint
\* Presentation'), 'Unknown file type' for every other extension; the result
\* depends neither on the letter case of the extension nor on whether the
\* file exists.
C16_GetFileType ==
    tool = "get_file_type" /\ tpc = "returned" =>
        /\ IsLowerCased(ret.ext, file_path.ext)
        /\ ret.desc = (IF ret.ext = PdfSuffix THEN "PDF Document"
                       ELSE IF ret.ext = PptxSuffix THEN "PowerPoint Presentation"
                       ELSE "Unknown file type")
        /\ \A q \in InputsOf("get_file_type") :
             SameButCase(q.ext, file_path.ext) =>
                 GetFileType(q) = <<ret.ext, ret.desc>>
C16_Witness ==
    /\ tool = "get_file_type" /\ tpc = "returned"
    /\ file_path.ext = <<".", "P", "d", "F">> /\ ~file_path.exists
    /\ ret.ext = PdfSuffix /\ ret.desc = "PDF Document"

\* C17: validate_input_file returns true if and only if the file exists and
\* its extension is, up to letter case, '.pdf' or '.pptx'.
C17_ValidateInputFile ==
    tool = "validate_input_file" /\ tpc = "returned" =>
        ret.valid = (file_path.exists /\ file_path.ext \in PdfSuffixes \cup PptxSuffixes)
\* an upper-case .PPTX that exists is valid
C17_Witness ==
    /\ tool = "validate_input_file" /\ tpc = "returned"
    /\ file_path.ext = <<".", "P", "P", "T", "X">> /\ file_path.exists /\ ret.valid
\* a .pdf that does not exist is not
C17_WitnessMissing ==
    /\ tool = "validate_input_file" /\ tpc = "returned"
    /\ file_path.ext = PdfSuffix /\ ~file_path.exists /\ ~ret.valid

\* C18: when the text reconstruction runs on a deck of n >= 1 slides and
\* completes, the written document has exactly n pages, page k shows slide
\* k, and every page carries the text-only warning.
C18_FallbackPagePerSlide ==
    /\ tool = "_convert_pptx_fallback_method" /\ tpc = "returned"
    /\ error = "none" /\ file_path.pages >= 1
    => /\ output.kind = "pdf"
       /\ Len(output.pages) = file_path.pages
       /\ \A k \in 1 .. Len(output.pages) :
            output.pages[k].src = k /\ output.pages[k].marker
C18_Witness ==
    /\ tool = "_convert_pptx_fallback_method" /\ tpc = "returned"
    /\ error = "none" /\ file_path.pages >= 2 /\ Len(output.pages) = file_path.pages

\* C19: the quality used by convert_to_ppt is 85 for at most 20 pages, 80
\* for 21 to 50 pages and 70 for more than 50 pages, whatever the DPI and
\* whatever an earlier call used; it is in {70, 80, 85} and no document of
\* fewer pages gets a lower quality.
C19_QualityByPageCount ==
    tool = "convert_to_ppt" /\ handles.opened > 0 =>
        /\ quality = (IF file_path.pages <= 20 THEN 85
                      ELSE IF file_path.pages <= 50 THEN 80 ELSE 70)
        /\ quality \in {70, 80, 85}
        /\ \A n \in 1 .. file_path.pages : Quality(n) >= quality
C19_Witness ==
    /\ tool = "convert_to_ppt" /\ tpc = "returned"
    /\ file_path.pages = 51 /\ quality = 70 /\ dpi_arg = 72

\* ------------------------------------------------------------------- GUI
\* C20 as stated: within one GUI session, under any sequence of button
\* presses, at most one compression or conversion worker is running at any
\* time, so no two running workers write the same output path.
C20_Original == Cardinality(jobs) <= 1

\* ----------------------------------------------------------------------
\* C22 as stated: one autocompress_pdf call makes at most 7 whole-document
\* render passes, the final re-render counted.
C22_Original == op \in PdfOps => renders <= 7

\* C22: one autocompress_pdf call makes at most 7 search trials and at most
\* one render pass more (the final re-render), 8 render passes in all.
C22_RenderPassesBounded ==
    op \in PdfOps => (trials <= 7 /\ renders <= trials + 1 /\ renders <= 8)
\* seven trials, none retained, and the re-render made
C22_Witness ==
    /\ op \in PdfOps
    /\ pc = "returned"
    /\ trials = 7
    /\ renders = 8
    /\ "regenerating" \in log

\* ----------------------------------------------------------------------
\* A step of either search that made one trial and went on or ended the loop
\* (the trial did not raise), the trial's record, and the DPI it rendered at.
TrialMade == pc \in {"search", "pptx_search"} /\ Len(tried') = Len(tried) + 1
NewEntry == tried'[Len(tried')]
LastEntry == tried[Len(tried)]
Guess == DpiGuess(dpi_low, dpi_high)
DonePc == IF pc = "search" THEN "search_done" ELSE "pptx_search_done"
\* the loop goes to its next iteration, or ends when none remains
Continues == i' = i + 1 /\ pc' = (IF i + 1 < ITERATIONS THEN pc ELSE DonePc)

\* C23: a trial in which zero pages render sets dpi_high to dpi_guess, leaves
\* dpi_low, best_dpi and the best artifact unchanged, and the search goes on
\* with the next iteration if one remains.
C23_ZeroPagesTrial ==
    [][(TrialMade /\ ~NewEntry.rendered) =>
          /\ dpi_high' = Guess
          /\ dpi_low' = dpi_low
          /\ best_dpi' = best_dpi
          /\ BestArtifact' = BestArtifact
          /\ Continues]_vars
\* a trial rendered nothing after an earlier trial had given a best artifact
C23_Witness ==
    /\ pc \in {"search", "pptx_search"}
    /\ Len(tried) >= 2
    /\ ~LastEntry.rendered
    /\ dpi_high = LastEntry.dpi
    /\ ~IsNone(BestArtifact)

\* C24: in both searches the tolerance test comes before the direction test:
\* the first trial whose measured size is within the tolerance, above or below
\* the target, becomes the best, ends the search with no later trial, leaves
\* dpi_low and dpi_high as they were, and its DPI and artifact are the result.
C24_AcceptFirstWithinTolerance ==
    /\ [](\A k \in 1 .. Len(tried) :
            tried[k].within => (k = Len(tried) /\ SearchDone /\ accepted))
    /\ [][(TrialMade /\ NewEntry.within) =>
            /\ dpi_low' = dpi_low
            /\ dpi_high' = dpi_high
            /\ best_dpi' = Guess
            /\ BestArtifact'.dpi = Guess
            /\ BestArtifact'.origin = "trial"
            /\ WithinTolerance(BestArtifact'.size, target)
            /\ (BestArtifact'.size > target) = NewEntry.over
            /\ i' = i
            /\ pc' = DonePc]_vars
\* a search ended by a trial within the tolerance and above the target, after
\* an earlier trial below the target had been the best
C24_Witness ==
    /\ SearchDone
    /\ target > 0
    /\ Len(tried) >= 2
    /\ LastEntry.within
    /\ LastEntry.over
    /\ \E k \in 1 .. Len(tried) - 1 : tried[k].rendered /\ ~tried[k].over
    /\ best_dpi = LastEntry.dpi
    /\ BestArtifact.size > target

\* C25: a trial whose artifact is outside the tolerance changes exactly one
\* bound: an oversized one sets dpi_high to dpi_guess and leaves the best; any
\* other sets dpi_low to dpi_guess and makes the trial's DPI and artifact the
\* best.  Over a search dpi_low never decreases, dpi_high never increases,
\* and each such step halves dpi_high - dpi_low.
C25_OneBoundPerTrial ==
    /\ [][(TrialMade /\ NewEntry.rendered /\ ~NewEntry.within) =>
            /\ IF NewEntry.over
               THEN /\ dpi_high' = Guess
                    /\ dpi_low' = dpi_low
                    /\ best_dpi' = best_dpi
                    /\ BestArtifact' = BestArtifact
               ELSE /\ dpi_low' = Guess
                    /\ dpi_high' = dpi_high
                    /\ best_dpi' = Guess
                    /\ BestArtifact'.dpi = Guess
                    /\ BestArtifact'.origin = "trial"
                    /\ BestArtifact'.size <= target
            /\ 2 * (dpi_high' - dpi_low') = dpi_high - dpi_low
            /\ Continues]_vars
    /\ [][(pc \in {"search", "pptx_search"} /\ pc' \in {"search", "pptx_search",
                                                     "search_done", "pptx_search_done"}) =>
            (dpi_low' >= dpi_low /\ dpi_high' <= dpi_high)]_vars
\* an oversized trial outside the tolerance, made after a trial below the
\* target had given the best, left the best as it was
C25_Witness ==
    /\ pc \in {"search", "pptx_search"}
    /\ Len(tried) >= 2
    /\ LastEntry.rendered /\ LastEntry.over /\ ~LastEntry.within
    /\ dpi_high = LastEntry.dpi
    /\ \E k \in 1 .. Len(tried) - 1 :
          /\ tried[k].rendered /\ ~tried[k].over /\ ~tried[k].within
          /\ best_dpi = tried[k].dpi
          /\ dpi_low = tried[k].dpi
    /\ BestArtifact.dpi = best_dpi

\* C26: when a search ends without an acceptance and with a best artifact,
\* best_dpi is the largest DPI tried whose artifact was not larger than the
\* target, and every DPI tried above best_dpi was oversized or rendered
\* nothing, whatever sizes the trials gave.
C26_BestIsLargestFitting ==
    (SearchDone /\ tracing /\ ~accepted /\ ~IsNone(BestArtifact)) =>
        /\ \E k \in 1 .. Len(tried) :
              tried[k].dpi = best_dpi /\ tried[k].rendered /\ ~tried[k].over
        /\ \A k \in 1 .. Len(tried) :
              (tried[k].rendered /\ ~tried[k].over) => tried[k].dpi <= best_dpi
        /\ \A k \in 1 .. Len(tried) :
              tried[k].dpi > best_dpi => (tried[k].over \/ ~tried[k].rendered)
\* seven trials, none accepted: two of them not larger than the target, and
\* above the best one an oversized trial and a trial that rendered nothing
C26_Witness ==
    /\ SearchDone /\ tracing /\ ~accepted /\ ~IsNone(BestArtifact)
    /\ Len(tried) = ITERATIONS
    /\ \E j, k \in 1 .. Len(tried) :
          /\ j < k
          /\ tried[j].rendered /\ ~tried[j].over
          /\ tried[k].rendered /\ ~tried[k].over /\ tried[k].dpi = best_dpi
    /\ \E k \in 1 .. Len(tried) : tried[k].dpi > best_dpi /\ tried[k].over
    /\ \E k \in 1 .. Len(tried) : tried[k].dpi > best_dpi /\ ~tried[k].rendered

\* a recorded trial whose artifact a search retains: within the tolerance,
\* or not larger than the target
Retainable(e) == e.within \/ (e.rendered /\ ~e.over)

\* C27: in every state of a search the best artifact is non-null exactly when
\* some earlier trial of the search was within the tolerance or not larger
\* than the target, and a non-null best artifact is the artifact of the trial
\* made at best_dpi.
C27_BestIsATrialsArtifact ==
    (InSearch /\ tracing) =>
        /\ ~IsNone(BestArtifact) <=> (\E k \in 1 .. Len(tried) : Retainable(tried[k]))
        /\ ~IsNone(BestArtifact) =>
              /\ BestArtifact.dpi = best_dpi
              /\ BestArtifact.origin = "trial"
              /\ \E k \in 1 .. Len(tried) :
                    /\ tried[k].dpi = best_dpi
                    /\ Retainable(tried[k])
                    /\ tried[k].over = (BestArtifact.size > target)
                    /\ tried[k].within = WithinTolerance(BestArtifact.size, target)
                    /\ \A j \in 1 .. Len(tried) : tried[j].dpi = best_dpi => j = k
\* the best artifact of an earlier trial is kept while later trials are
\* oversized or render nothing
C27_Witness ==
    /\ pc \in {"search", "pptx_search"} /\ tracing
    /\ Len(tried) >= 3
    /\ ~IsNone(BestArtifact)
    /\ BestArtifact.dpi = best_dpi
    /\ Retainable(tried[1])
    /\ tried[1].dpi = best_dpi
    /\ \E k \in 2 .. Len(tried) : tried[k].over /\ ~tried[k].within
    /\ \E k \in 2 .. Len(tried) : ~tried[k].rendered

\* every iteration of the search was made and no trial rendered a page
AllTrialsFailed ==
    /\ Len(tried) = ITERATIONS
    /\ \A k \in 1 .. Len(tried) : ~tried[k].rendered

\* C28 as stated: when every search trial of autocompress_pdf fails to render
\* any page, the operation ends by reporting that no candidate could be
\* produced and writes no output file.
C28_Original ==
    [][(op = "autocompress_pdf" /\ pc = "search_done" /\ AllTrialsFailed) =>
          (pc' = "returned" /\ "final_failed" \in log' /\ out' = out)]_vars

\* the auto-compress routes whose output is a slide deck
DeckOps == {"autocompress_pdf_to_pptx", "autocompress_pptx"}

\* C29 as stated: in every route whose output is a slide deck the size that a
\* trial compares with the target is the size of the deck built from the
\* trial's PDF: the artifact a trial's comparison retained as the best is a
\* deck.
C29_Original ==
    (op \in DeckOps /\ InSearch /\ ~IsNone(BestArtifact)) => BestArtifact.kind = "pptx"

\* the scratch files that exist
Outstanding == {n \in ScratchNames : ~IsNone(scratch[n])}

\* C30: in the nested search, at the end of every completed iteration at most
\* one scratch file of the search exists, and it is the deck of the current
\* best trial: the trial's PDF and an oversized trial's deck are deleted in
\* the iteration, and the deck of a replaced best is deleted.
C30_OneScratchFile ==
    (op = "autocompress_pdf_to_pptx" /\ pc \in {"pptx_search", "pptx_search_done"}) =>
        /\ Cardinality(Outstanding) <= 1
        /\ \A n \in Outstanding :
              /\ n = best_path
              /\ scratch[n].kind = "pptx"
              /\ scratch[n].dpi = best_dpi
\* after four iterations, with two trials below the target (the second
\* replaced the first as the best) and an oversized trial, one deck exists
C30_Witness ==
    /\ op = "autocompress_pdf_to_pptx" /\ pc = "pptx_search" /\ tracing
    /\ i >= 4
    /\ Outstanding = {best_path}
    /\ \E j, k \in 1 .. Len(tried) :
          /\ j < k
          /\ Retainable(tried[j])
          /\ Retainable(tried[k]) /\ tried[k].dpi = best_dpi
    /\ \E k \in 1 .. Len(tried) : tried[k].over /\ ~tried[k].within
    /\ \E k \in 1 .. Len(tried) : ~tried[k].rendered

\* C21 as stated: no operation leaves a half-written output: after a failure
\* while the final artifact is being saved, no partial file is at the
\* destination path.
C21_Original == error = "save" => output.kind # "partial"

\* ----------------------------------------------------------------------
\* the ways autocompress_pdf_to_pptx returns before its search
EarlyReturnTags == {"input_not_found", "input_must_be_pdf", "open_failed"}

\* C36: autocompress_pdf_to_pptx has no pass-through: whatever the size of the
\* source, once the source is opened the nested search makes at least one
\* trial, and an output it writes is a deck made by a search trial, never a
\* copy of the source.
C36_NoPassThrough ==
    op = "autocompress_pdf_to_pptx" =>
        /\ out.origin # "source"
        /\ out.origin \in {"none", "old"} \/ (out.kind = "pptx" /\ out.origin = "trial")
        /\ (pc \in {"returned", "raised"} /\ log \cap EarlyReturnTags = {}) => trials >= 1
\* a source not larger than the target was searched and a trial's deck written
C36_Witness ==
    /\ op = "autocompress_pdf_to_pptx"
    /\ pc = "returned"
    /\ target > 0
    /\ src.size <= target
    /\ trials >= 1
    /\ out.kind = "pptx" /\ out.origin = "trial"

\* C38 as stated: for every numeric target a caller can pass, 0 included, an
\* auto-compress call on an existing source returns normally: no trial is
\* accepted as within tolerance for a target that is not positive, and no
\* error of the tolerance test escapes the search (in _find_optimal_dpi the
\* tolerance test is the only statement of the loop that can raise).
C38_Original ==
    /\ []((op # "convert_pptx_to_pdf" /\ target <= 0) => ~accepted)
    /\ [][(op \in PdfOps /\ pc = "search") => pc' # "raised"]_vars

\* ----------------------------------------------------------------------
\* C31: every deletion of a scratch file made by the nested search and by the
\* auto-compress operations is made only on a path that exists: no os.unlink
\* of a cleanup step raises.
C31_CleanupNeverRaises == ~cleanup_raised
\* the first trial of the nested search became the best while there was no
\* earlier best deck to delete (best_pptx_path was None), and its own PDF was
\* deleted by the finally clause
C31_Witness ==
    /\ op = "autocompress_pdf_to_pptx"
    /\ pc = "pptx_search"
    /\ i = 1
    /\ best_path = <<"trial_pptx", 0>>
    /\ ~IsNone(scratch[best_path])
    /\ IsNone(scratch[<<"trial_pdf", 0>>])
    /\ ~cleanup_raised

\* C32 as stated: every external-tool invocation of the chain is bounded by a
\* timeout, so convert_pptx_to_pdf always terminates, also when a tool hangs:
\* every call of it eventually returns or raises.
C32_Original == <>(pc \in {"returned", "raised"})

\* the DPI values (scaled) of the recorded trials
TriedDpis == {tried[k].dpi : k \in 1 .. Len(tried)}

\* C33: from the bounds [30, 300] and with 7 iterations the early exit
\* dpi_guess < dpi_low + 1 is never taken: a search that accepts no trial
\* makes exactly 7 trials, at pairwise distinct DPI values strictly between
\* 30 and 300, and ends with dpi_high - dpi_low = 270/128.
C33_NoEarlyExit ==
    /\ pc \in {"search", "pptx_search"} => ~Converged(dpi_low, dpi_high)
    /\ (SearchDone /\ tracing /\ ~accepted) =>
          /\ trials = 7
          /\ Len(tried) = 7
          /\ Cardinality(TriedDpis) = 7
          /\ \A d \in TriedDpis : 30 * Scale < d /\ d < 300 * Scale
          /\ (dpi_high - dpi_low) * 128 = 270 * Scale
\* a search of seven trials, none accepted, some raising the lower bound and
\* some lowering the upper bound
C33_Witness ==
    /\ SearchDone /\ tracing /\ ~accepted
    /\ Len(tried) = 7
    /\ dpi_low > 30 * Scale
    /\ dpi_high < 300 * Scale
    /\ (dpi_high - dpi_low) * 128 = 270 * Scale

\* C34: in autocompress_pdf, when the search ends with a retained best
\* artifact no further render is made and the output written is that
\* artifact, the one of the trial at best_dpi; the re-render is made only when
\* the search retained nothing, and then at DPI 30, which no trial has tried.
C34_RerenderOnlyWithoutBest ==
    /\ [][(op \in PdfOps /\ pc = "search_done" /\ ~IsNone(best_data)) =>
            /\ renders' = renders
            /\ out' = best_data
            /\ out'.origin = "trial"
            /\ out'.dpi = best_dpi
            /\ pc' = "returned"]_vars
    /\ [][(op \in PdfOps /\ pc = "search_done" /\ renders' # renders) =>
            /\ IsNone(best_data)
            /\ renders' = renders + 1
            /\ best_dpi = DPI_MIN * Scale
            /\ best_dpi \notin TriedDpis
            /\ out' # out => (out'.origin = "rerender" /\ out'.dpi = DPI_MIN * Scale)]_vars
\* after a search that retained nothing the re-render at DPI 30 was written
C34_Witness ==
    /\ op \in PdfOps
    /\ pc = "returned"
    /\ trials = ITERATIONS
    /\ renders = ITERATIONS + 1
    /\ out.origin = "rerender"
    /\ out.dpi = DPI_MIN * Scale

\* the nested search has ended and none of its trials gave a deck to retain:
\* each was oversized outside the tolerance or rendered nothing
NoTrialRetained ==
    /\ op = "autocompress_pdf_to_pptx"
    /\ pc = "pptx_search_done"
    /\ \A k \in 1 .. Len(tried) : ~Retainable(tried[k])

\* C35: in autocompress_pdf_to_pptx, when every trial of the nested search
\* was oversized or failed, the operation reports the failure and writes no
\* output; it makes no further render, and no scratch file remains.
C35_NoFinalAttempt ==
    /\ [](NoTrialRetained => (best_path = NoPath /\ Outstanding = {}))
    /\ [][NoTrialRetained =>
            /\ pc' = "returned"
            /\ "failed_target_pptx" \in log'
            /\ "complete" \notin log'
            /\ out' = out
            /\ renders' = renders
            /\ trials' = trials
            /\ Outstanding' = {}]_vars
\* the failure was reported after seven trials, with nothing written or left
C35_Witness ==
    /\ op = "autocompress_pdf_to_pptx"
    /\ pc = "returned"
    /\ tracing
    /\ trials = ITERATIONS
    /\ renders = ITERATIONS
    /\ "failed_target_pptx" \in log
    /\ IsNone(out)
    /\ Outstanding = {}

\* ----------------------------------------------------------------------
\* a call of autocompress has returned
Dispatched == tool = "autocompress" /\ tpc = "returned"
\* the input passes validate_input_file: it exists and is a PDF or a deck
ValidInput == file_path.exists /\ file_path.ext \in PdfSuffixes \cup PptxSuffixes

\* C37: autocompress dispatches on the pair of the lower-cased extensions of
\* the input and of the output: PDF -> PDF, PPTX -> PPTX and PDF -> PPTX each
\* call their own routine; every other pair (PPTX -> PDF, an output without a
\* supported extension) and every input that is not valid is reported as an
\* error, calls no routine and leaves the output path as it was.
C37_DispatchOnExtensionPair ==
    Dispatched =>
        /\ route = "autocompress_pdf" <=>
              (ValidInput /\ file_path.ext \in PdfSuffixes /\ output_ext \in PdfSuffixes)
        /\ route = "autocompress_pptx" <=>
              (ValidInput /\ file_path.ext \in PptxSuffixes /\ output_ext \in PptxSuffixes)
        /\ route = "autocompress_pdf_to_pptx" <=>
              (ValidInput /\ file_path.ext \in PdfSuffixes /\ output_ext \in PptxSuffixes)
        /\ route = "unsupported" <=>
              (ValidInput /\ ~(\/ output_ext \in PptxSuffixes
                               \/ (file_path.ext \in PdfSuffixes /\ output_ext \in PdfSuffixes)))
        /\ route = "invalid" <=> ~ValidInput
        /\ output = NoFile /\ handles = NoHandles /\ error = "none"
\* an upper-case .PPTX input with an upper-case .PDF output was reported as an
\* unsupported conversion
C37_Witness ==
    /\ Dispatched
    /\ file_path.exists
    /\ file_path.ext = <<".", "P", "P", "T", "X">>
    /\ output_ext = <<".", "P", "D", "F">>
    /\ route = "unsupported"
    /\ output = NoFile

====
